---- MODULE Spec2Model ----
(***************************************************************************)
(* A model of the chunking engine of codebaseRAG                           *)
(* (src/ingestion/chunking_strategies/*.py, src/ingestion/repo_processer.py*)
(* and the ingestion endpoint of src/api/main.py) and of its query path    *)
(* (src/rag_core/rag_pipeline.py, src/rag_core/chat_manager.py and the     *)
(* query endpoint of src/api/main.py).                                     *)
(*                                                                         *)
(* Text is a sequence of one-character strings.  Line numbers are          *)
(* 1-indexed, tree-sitter rows 0-indexed, as in the source.                *)
(***************************************************************************)
EXTENDS Integers, Sequences, FiniteSets, TLC

VARIABLES
    strategy,             \* which chunker's chunk() is running on doc
    doc,                  \* the RawFileDocument: [content, file_type]
    chunk_size,           \* BaseChunker.chunk_size
    chunk_overlap,        \* BaseChunker.chunk_overlap
    parse,                \* what the language backend answers for doc.content
    current_char_offset,  \* GenericChunker.chunk: the cursor
    chunks,               \* the chunk list built so far / returned
    iterations,           \* GenericChunker.chunk: loop iterations done so far
    md,                   \* MarkdownChunker.chunk: the locals of its loop
    position,             \* a call of _get_line_numbers: arguments and result
    pc,                   \* "start" | "loop" | "done" | "raised"
    raw_file_docs,        \* per run: the files download_and_extract_raw_files gave
    file_idx,             \* per run: the file the loop of the run is at
    run_pc,               \* per run: where process_repository_for_rag stands
    chunker_instance,     \* per run: the chunker selected for the current file
    all_semantic_chunks,  \* per run: the chunks collected so far
    chunks_for_file,      \* per run: what chunk() returned, file by file
    tree_sitter_chunker_cache,  \* module level: language |-> chunker instance
    constructions,        \* every TreeSitterCodeChunker(...) call: <<lang, succeeded>>
    conversations,        \* ChatManager.conversations: id |-> list of (query, response)
    calls,                \* the ChatManager calls made so far, in call order
    returned,             \* what the last ChatManager call returned
    request,              \* the arguments of the query under way
    outcomes,             \* what the collaborators of the query under way answer
    response              \* what the query under way came back with

chunkVars == <<strategy, doc, chunk_size, chunk_overlap, parse,
               current_char_offset, chunks, iterations, md, position, pc>>

dispatchVars == <<raw_file_docs, file_idx, run_pc, chunker_instance,
                  all_semantic_chunks, chunks_for_file,
                  tree_sitter_chunker_cache, constructions>>

queryVars == <<conversations, calls, returned, request, outcomes, response>>

vars == <<chunkVars, dispatchVars, queryVars>>

----------------------------------------------------------------------------
(* Bounds of the model *)

\* longest raw content handed to the Generic Window Chunker
MaxLen == 6
\* largest chunk_size tried
MaxChunkSize == 3
\* most lines of a markdown file
MaxMdLines == 4
\* most lines of a source-code file
MaxCodeLines == 3

\* loop iterations of GenericChunker.chunk the model follows: one more than a
\* run that advances needs (a run that advances by >= 1 ends within
\* Len(content) iterations)
MaxIter == MaxLen + 1

----------------------------------------------------------------------------
(* Characters and Python's string primitives *)

LF == "\n"
CR == "\r"
\* the form feed: white space for Python and the tree-sitter grammars, a line
\* boundary for str.splitlines()
FF == "\f"
\* None: a name no text equals (a text is a sequence of single characters)
None == <<"<None>">>

\* what str.strip() removes (among the characters of the model)
Whitespace == {" ", LF, CR, FF}

\* the characters raw contents are drawn from
Alphabet == {"a", " ", LF, CR}

Min(a, b) == IF a < b THEN a ELSE b
Max(a, b) == IF a > b THEN a ELSE b

RECURSIVE LStrip(_)
LStrip(s) ==
    IF s = <<>> THEN s
    ELSE IF Head(s) \in Whitespace THEN LStrip(Tail(s)) ELSE s

RECURSIVE RStrip(_)
RStrip(s) ==
    IF s = <<>> THEN s
    ELSE IF s[Len(s)] \in Whitespace THEN RStrip(SubSeq(s, 1, Len(s) - 1)) ELSE s

\* str.strip()
Strip(s) == RStrip(LStrip(s))

\* Python's index normalisation in a slice: negative indices count from the end
SliceIndex(i, n) ==
    IF i < 0 THEN (IF i + n < 0 THEN 0 ELSE i + n)
    ELSE (IF i > n THEN n ELSE i)

\* s[i:j]
Slice(s, i, j) ==
    LET a == SliceIndex(i, Len(s))
        b == SliceIndex(j, Len(s))
    IN  IF a >= b THEN <<>> ELSE SubSeq(s, a + 1, b)

\* str.splitlines(): breaks at \n, \r, \r\n and \f, no empty last line
RECURSIVE SplitLinesFrom(_, _, _)
SplitLinesFrom(s, i, cur) ==
    IF i > Len(s) THEN (IF cur = <<>> THEN <<>> ELSE <<cur>>)
    ELSE IF s[i] = CR /\ i < Len(s) /\ s[i + 1] = LF
         THEN <<cur>> \o SplitLinesFrom(s, i + 2, <<>>)
    ELSE IF s[i] \in {LF, CR, FF}
         THEN <<cur>> \o SplitLinesFrom(s, i + 1, <<>>)
    ELSE SplitLinesFrom(s, i + 1, Append(cur, s[i]))

SplitLines(s) == SplitLinesFrom(s, 1, <<>>)

\* the lines ast.parse and tree-sitter number: breaks at \n, \r and \r\n only
RECURSIVE ParserLinesFrom(_, _, _)
ParserLinesFrom(s, i, cur) ==
    IF i > Len(s) THEN (IF cur = <<>> THEN <<>> ELSE <<cur>>)
    ELSE IF s[i] = CR /\ i < Len(s) /\ s[i + 1] = LF
         THEN <<cur>> \o ParserLinesFrom(s, i + 2, <<>>)
    ELSE IF s[i] \in {LF, CR}
         THEN <<cur>> \o ParserLinesFrom(s, i + 1, <<>>)
    ELSE ParserLinesFrom(s, i + 1, Append(cur, s[i]))

ParserLines(s) == ParserLinesFrom(s, 1, <<>>)

\* sep.join(ls)
RECURSIVE JoinSep(_, _)
JoinSep(ls, sep) ==
    IF ls = <<>> THEN <<>>
    ELSE IF Len(ls) = 1 THEN ls[1]
    ELSE ls[1] \o sep \o JoinSep(Tail(ls), sep)

\* "\n".join(ls)
Join(ls) == JoinSep(ls, <<LF>>)

\* s.startswith(p)
StartsWith(s, p) == Len(s) >= Len(p) /\ SubSeq(s, 1, Len(p)) = p

\* ls[i:j] of a list, 0-indexed half-open as in Python (0 <= i)
ListSlice(ls, i, j) == Slice(ls, i, j)

----------------------------------------------------------------------------
(* BaseChunker *)

\* a loop that counts no character for the line terminator
RECURSIVE GetLineNumbersLoopNoTerminator(_, _, _, _, _, _, _)
GetLineNumbersLoopNoTerminator(content_lines, start_char, end_char, i, current_char_count, start_line, end_line) ==
    IF i > Len(content_lines) THEN <<start_line, end_line>>
    ELSE LET line_length == Len(content_lines[i])
             s2 == IF start_char >= current_char_count
                      /\ start_char < current_char_count + line_length
                   THEN i ELSE start_line
             e2 == IF (end_char - 1) >= current_char_count
                      /\ (end_char - 1) < current_char_count + line_length
                   THEN i ELSE end_line
         IN  IF e2 # 1 /\ s2 # 1 THEN <<s2, e2>>
             ELSE GetLineNumbersLoopNoTerminator(content_lines, start_char, end_char,
                                                 i + 1, current_char_count + line_length,
                                                 s2, e2)

\* the loop of _get_line_numbers from line index i (1-indexed here, i - 1 in
\* the source), with the early break
RECURSIVE GetLineNumbersLoop(_, _, _, _, _, _, _)
GetLineNumbersLoop(content_lines, start_char, end_char, i, current_char_count, start_line, end_line) ==
    IF i > Len(content_lines) THEN <<start_line, end_line>>
    ELSE LET line_length_with_newline == Len(content_lines[i]) + 1
             s2 == IF start_char >= current_char_count
                      /\ start_char < current_char_count + line_length_with_newline
                   THEN i ELSE start_line
             e2 == IF (end_char - 1) >= current_char_count
                      /\ (end_char - 1) < current_char_count + line_length_with_newline
                   THEN i ELSE end_line
         IN  IF e2 # 1 /\ s2 # 1 THEN <<s2, e2>>
             ELSE GetLineNumbersLoop(content_lines, start_char, end_char, i + 1,
                                     current_char_count + line_length_with_newline,
                                     s2, e2)

\* BaseChunker._get_line_numbers: <<start_line, end_line>>
_get_line_numbers(content_lines, start_char, end_char) ==
    GetLineNumbersLoop(content_lines, start_char, end_char, 1, 0, 1, 1)

\* no call of _get_line_numbers is followed on its own
NoPosition == [content_lines |-> <<>>, start_char |-> 0, end_char |-> 0, result |-> <<>>]

\* BaseChunker._create_base_chunk_meta, with the chunk's content
_create_base_chunk_meta(content, chunk_type, language, start_line, end_line, name, parent_name, section) ==
    [content     |-> content,
     start_line  |-> start_line,
     end_line    |-> end_line,
     chunk_type  |-> chunk_type,
     language    |-> language,
     name        |-> name,
     parent_name |-> parent_name,
     section     |-> section]

----------------------------------------------------------------------------
(* GenericChunker *)

\* a loop body that emits a chunk for every window, all-whitespace ones
\* included (what GenericChunker.chunk would do without lines 57-59)
GenericIterationNoSkip(content, file_type, size, overlap, cur, cs) ==
    LET end_char_offset == Min(cur + size, Len(content))
        ln == _get_line_numbers(SplitLines(content), cur, end_char_offset)
    IN  [cur    |-> cur + (size - overlap),
         chunks |-> Append(cs,
                      _create_base_chunk_meta(
                          Strip(Slice(content, cur, end_char_offset)), "text_block",
                          file_type, ln[1], ln[2], None, None, None))]

\* one iteration of the while loop of GenericChunker.chunk: the cursor and the
\* chunk list after it
GenericIteration(content, file_type, size, overlap, cur, cs) ==
    LET end_char_offset == Min(cur + size, Len(content))
        chunk_content   == Strip(Slice(content, cur, end_char_offset))
    IN  IF chunk_content = <<>>
        THEN [cur |-> cur + (size - overlap), chunks |-> cs]
        ELSE LET ln == _get_line_numbers(SplitLines(content), cur, end_char_offset)
                 c2 == cur + (size - overlap)
             IN  [cur    |-> IF size <= overlap /\ c2 < Len(content)
                             THEN c2 + 1 ELSE c2,
                  chunks |-> Append(cs,
                               _create_base_chunk_meta(chunk_content, "text_block",
                                   file_type, ln[1], ln[2], None, None, None))]

\* the while loop of GenericChunker.chunk, run to its end (it ends for
\* chunk_overlap < chunk_size)
RECURSIVE GenericLoop(_, _, _, _, _, _)
GenericLoop(content, file_type, size, overlap, cur, cs) ==
    IF cur < Len(content)
    THEN LET r == GenericIteration(content, file_type, size, overlap, cur, cs)
         IN  GenericLoop(content, file_type, size, overlap, r.cur, r.chunks)
    ELSE cs

\* GenericChunker.chunk as a function of the document
GenericChunker_chunk(d, size, overlap) ==
    IF Strip(d.content) = <<>> THEN <<>>
    ELSE GenericLoop(d.content, d.file_type, size, overlap, 0, <<>>)


----------------------------------------------------------------------------
(* list.sort(key=lambda x: x['meta']['start_line']): a stable sort *)

RECURSIVE InsertByStartLine(_, _)
InsertByStartLine(sorted, c) ==
    IF sorted = <<>> THEN <<c>>
    ELSE IF sorted[Len(sorted)].start_line <= c.start_line THEN Append(sorted, c)
    ELSE Append(InsertByStartLine(SubSeq(sorted, 1, Len(sorted) - 1), c),
                sorted[Len(sorted)])

RECURSIVE SortByStartLine(_)
SortByStartLine(cs) ==
    IF cs = <<>> THEN <<>>
    ELSE InsertByStartLine(SortByStartLine(SubSeq(cs, 1, Len(cs) - 1)), cs[Len(cs)])

----------------------------------------------------------------------------
(* MarkdownChunker *)

\* the backtick, as an atom of the model's texts
Backtick == "BACKTICK"

\* line.strip().startswith of three backticks
Fence == <<Backtick, Backtick, Backtick>>

\* the number of leading '#' of a line
RECURSIVE LeadingHashes(_)
LeadingHashes(line) ==
    IF line # <<>> /\ Head(line) = "#" THEN 1 + LeadingHashes(Tail(line)) ELSE 0

\* re.match(r"^(#+)\s(.*)", line): the run of '#' is followed by a whitespace
\* character (a line holds no line break, so \s is the blank here)
header_match(line) ==
    LET n == LeadingHashes(line)
    IN  n >= 1 /\ Len(line) > n /\ line[n + 1] = " "

\* len(header_match.group(1))
header_level(line) == LeadingHashes(line)

\* header_match.group(2).strip()
header_text(line) == Strip(SubSeq(line, LeadingHashes(line) + 2, Len(line)))

\* a stack that is never popped
PopHeadersKeep(header_stack, level) == header_stack

\* while header_stack and header_stack[-1][0] >= header_level: header_stack.pop()
RECURSIVE PopHeaders(_, _)
PopHeaders(header_stack, level) ==
    IF header_stack # <<>> /\ header_stack[Len(header_stack)][1] >= level
    THEN PopHeaders(SubSeq(header_stack, 1, Len(header_stack) - 1), level)
    ELSE header_stack

\* a flush whose section runs through the line after it
_add_markdown_section_chunk_through(all_chunks, chunk_content, start_line, end_line, header_stack) ==
    IF chunk_content = <<>> THEN all_chunks
    ELSE LET section_path_parts == [i \in 1..Len(header_stack) |-> header_stack[i][2]]
             n == Len(section_path_parts)
             section_path == IF n > 0 THEN JoinSep(section_path_parts, <<"/">>)
                             ELSE None
             name == IF n > 0 THEN section_path_parts[n] ELSE None
         IN  Append(all_chunks,
                 _create_base_chunk_meta(chunk_content, "heading_section", "markdown",
                     start_line, end_line + 1, name,
                     IF n > 1 THEN section_path_parts[n - 1] ELSE None,
                     section_path))

\* MarkdownChunker._add_markdown_section_chunk: all_chunks after the call
_add_markdown_section_chunk(all_chunks, chunk_content, start_line, end_line, header_stack) ==
    IF chunk_content = <<>> THEN all_chunks
    ELSE LET section_path_parts == [i \in 1..Len(header_stack) |-> header_stack[i][2]]
             n == Len(section_path_parts)
             section_path == IF n > 0 THEN JoinSep(section_path_parts, <<"/">>)
                             ELSE None
             name == IF n > 0 THEN section_path_parts[n] ELSE None
         IN  Append(all_chunks,
                 _create_base_chunk_meta(chunk_content, "heading_section", "markdown",
                     start_line, end_line, name,
                     IF n > 1 THEN section_path_parts[n - 1] ELSE None,
                     section_path))

\* the locals of MarkdownChunker.chunk before its loop; i is the index the
\* loop has reached in lines
MdStart ==
    [all_chunks |-> <<>>, header_stack |-> <<>>, current_section_lines |-> <<>>,
     current_section_start_line |-> 1, in_code_block |-> FALSE, i |-> 0]

\* a loop body that looks for headings inside fences too
MarkdownLineFenceBlind(line, line_number, st) ==
    IF StartsWith(Strip(line), Fence)
    THEN [st EXCEPT !.in_code_block = ~@,
                    !.current_section_lines = Append(@, line)]
    ELSE IF header_match(line)
    THEN [st EXCEPT
            !.all_chunks =
                IF st.current_section_lines # <<>>
                THEN _add_markdown_section_chunk(@,
                         Strip(Join(st.current_section_lines)),
                         st.current_section_start_line, line_number - 1,
                         st.header_stack)
                ELSE @,
            !.header_stack =
                Append(PopHeaders(@, header_level(line)),
                       <<header_level(line), header_text(line)>>),
            !.current_section_lines = <<line>>,
            !.current_section_start_line = line_number]
    ELSE [st EXCEPT !.current_section_lines = Append(@, line)]

\* the body of the for loop of MarkdownChunker.chunk for one line
MarkdownLine(line, line_number, st) ==
    IF StartsWith(Strip(line), Fence)
    THEN [st EXCEPT !.in_code_block = ~@,
                    !.current_section_lines = Append(@, line)]
    ELSE IF st.in_code_block
    THEN [st EXCEPT !.current_section_lines = Append(@, line)]
    ELSE IF header_match(line)
    THEN [st EXCEPT
            !.all_chunks =
                IF st.current_section_lines # <<>>
                THEN _add_markdown_section_chunk(@,
                         Strip(Join(st.current_section_lines)),
                         st.current_section_start_line, line_number - 1,
                         st.header_stack)
                ELSE @,
            !.header_stack =
                Append(PopHeaders(@, header_level(line)),
                       <<header_level(line), header_text(line)>>),
            !.current_section_lines = <<line>>,
            !.current_section_start_line = line_number]
    ELSE [st EXCEPT !.current_section_lines = Append(@, line)]

RECURSIVE MarkdownLoop(_, _, _)
MarkdownLoop(lines, i, st) ==
    IF i > Len(lines) THEN st
    ELSE MarkdownLoop(lines, i + 1, MarkdownLine(lines[i], i, st))

\* MarkdownChunker.chunk
MarkdownChunker_chunk(d, size, overlap) ==
    IF Strip(d.content) = <<>> THEN <<>>
    ELSE LET lines == SplitLines(d.content)
             st == MarkdownLoop(lines, 1,
                       [all_chunks |-> <<>>,
                        header_stack |-> <<>>,
                        current_section_lines |-> <<>>,
                        current_section_start_line |-> 1,
                        in_code_block |-> FALSE])
             all_chunks ==
                 IF st.current_section_lines # <<>>
                 THEN _add_markdown_section_chunk(st.all_chunks,
                          Strip(Join(st.current_section_lines)),
                          st.current_section_start_line, Len(lines),
                          st.header_stack)
                 ELSE st.all_chunks
         IN  SortByStartLine(all_chunks)

----------------------------------------------------------------------------
(* Parse trees.  A tree is a sequence of nodes, the root first; a node names *)
(* its parent by index (0 for the root) and the children of a node are the   *)
(* nodes naming it, in index order.  The identities id(node) of the nodes of *)
(* one tree are taken to be their indices.                                   *)

Children(nodes, id) ==
    LET RECURSIVE From(_)
        From(j) == IF j > Len(nodes) THEN <<>>
                   ELSE IF nodes[j].parent = id THEN <<j>> \o From(j + 1)
                   ELSE From(j + 1)
    IN  From(1)

\* the maximal runs of TRUE in a sequence of flags, as 0-indexed
\* (start_idx, end_idx) pairs: the scan that collects uncovered_blocks
RECURSIVE BlockScan(_, _, _, _)
BlockScan(flags, i, current_block_start_line_idx, uncovered_blocks) ==
    IF i > Len(flags)
    THEN IF current_block_start_line_idx # -1
         THEN Append(uncovered_blocks, <<current_block_start_line_idx, Len(flags) - 1>>)
         ELSE uncovered_blocks
    ELSE IF flags[i]
    THEN BlockScan(flags, i + 1,
                   IF current_block_start_line_idx = -1 THEN i - 1
                   ELSE current_block_start_line_idx,
                   uncovered_blocks)
    ELSE IF current_block_start_line_idx # -1
    THEN BlockScan(flags, i + 1, -1,
                   Append(uncovered_blocks, <<current_block_start_line_idx, i - 2>>))
    ELSE BlockScan(flags, i + 1, -1, uncovered_blocks)

\* the loop over uncovered_blocks of both structural chunkers: each block goes
\* through the internal GenericChunker and its chunks are shifted by start_idx
RECURSIVE TopLevelChunks(_, _, _, _, _, _)
TopLevelChunks(blocks, lines, file_type, language, size, overlap) ==
    IF blocks = <<>> THEN <<>>
    ELSE LET start_idx == blocks[1][1]
             end_idx   == blocks[1][2]
             block_content == Strip(Join(ListSlice(lines, start_idx, end_idx + 1)))
             generic_chunks_from_block ==
                 GenericChunker_chunk([content |-> block_content, file_type |-> file_type],
                                      size, overlap)
             shifted ==
                 [k \in 1..Len(generic_chunks_from_block) |->
                     [generic_chunks_from_block[k] EXCEPT
                         !.start_line = @ + start_idx,
                         !.end_line   = @ + start_idx,
                         !.chunk_type = "top_level_code",
                         !.language   = language]]
         IN  (IF block_content = <<>> THEN <<>> ELSE shifted)
             \o TopLevelChunks(Tail(blocks), lines, file_type, language, size, overlap)

----------------------------------------------------------------------------
(* TreeSitterCodeChunker *)

NODE_TYPE_TO_CHUNK_TYPE ==
    ("function_definition" :> "function") @@ ("method_definition" :> "method") @@
    ("class_definition" :> "class") @@ ("object_declaration" :> "object") @@
    ("class_specifier" :> "class") @@ ("namespace_declaration" :> "module") @@
    ("function_signature" :> "function") @@ ("method_signature" :> "method") @@
    ("interface_declaration" :> "interface") @@ ("function_declaration" :> "function") @@
    ("class_declaration" :> "class") @@ ("method_declaration" :> "method") @@
    ("class" :> "class") @@ ("singleton_class" :> "class") @@
    ("method" :> "method") @@ ("singleton_method" :> "method") @@
    ("alias" :> "method") @@ ("module" :> "module") @@
    ("function_item" :> "function")

\* the line starts with one of '@', '#', '//', '/*'
StartsWithMarker(line_content) ==
    \/ StartsWith(line_content, <<"@">>)
    \/ StartsWith(line_content, <<"#">>)
    \/ StartsWith(line_content, <<"/", "/">>)
    \/ StartsWith(line_content, <<"/", "*">>)

\* the while loop of _get_node_content: the start line moved up over blank
\* lines and lines that start with a decorator or comment marker
RECURSIVE ExtendStart(_, _, _)
ExtendStart(lines, current_line_idx, start_line_0_indexed) ==
    IF current_line_idx >= 0
    THEN LET line_content == Strip(lines[current_line_idx + 1])
         IN  IF line_content = <<>> \/ StartsWithMarker(line_content)
             THEN ExtendStart(lines, current_line_idx - 1, current_line_idx)
             ELSE start_line_0_indexed
    ELSE start_line_0_indexed

\* TreeSitterCodeChunker._get_node_content: <<content, start_line, end_line>>
_get_node_content(node, lines) ==
    LET start_line_0_indexed ==
            IF node.type \in DOMAIN NODE_TYPE_TO_CHUNK_TYPE
            THEN ExtendStart(lines, node.start_row - 1, node.start_row)
            ELSE node.start_row
        end_line_0_indexed == node.end_row
    IN  <<Join(ListSlice(lines, start_line_0_indexed, end_line_0_indexed + 1)),
          start_line_0_indexed + 1, end_line_0_indexed + 1>>

\* TreeSitterCodeChunker._get_node_name: the identifier the grammar gives the
\* node (by its name field or an identifier child), None when it has none
_get_node_name(node) == node.name

\* a loop body that walks into ERROR nodes as into any other node
TSProcessNodeIntoError(p, st) ==
    LET current_node_id == st.nodes_to_process[1][1]
        parent_name_for_this_node_context == st.nodes_to_process[1][2]
        rest == Tail(st.nodes_to_process)
        current_node == p.nodes[current_node_id]
        kids == Children(p.nodes, current_node_id)
    IN  IF current_node_id \in st.processed_node_ids
        THEN [st EXCEPT !.nodes_to_process = rest]
        ELSE IF current_node.type \in DOMAIN NODE_TYPE_TO_CHUNK_TYPE
        THEN LET chunk_type_candidate == NODE_TYPE_TO_CHUNK_TYPE[current_node.type]
                 nc == _get_node_content(current_node, p.lines)
                 chunk_content == nc[1]
                 start_line == nc[2]
                 end_line == nc[3]
                 node_name == _get_node_name(current_node)
                 effective_parent_name == parent_name_for_this_node_context
                 sub_chunks ==
                     GenericChunker_chunk([content |-> chunk_content,
                                           file_type |-> p.file_type],
                                          p.size, p.overlap)
                 emitted ==
                     IF Len(chunk_content) > p.size /\ p.size > 0
                     THEN [k \in 1..Len(sub_chunks) |->
                              [sub_chunks[k] EXCEPT
                                  !.start_line = @ + (start_line - 1),
                                  !.end_line   = @ + (start_line - 1),
                                  !.chunk_type = IF node_name # None
                                                 THEN chunk_type_candidate \o "_part"
                                                 ELSE "code_block",
                                  !.language    = p.language,
                                  !.name        = node_name,
                                  !.parent_name = effective_parent_name]]
                     ELSE <<_create_base_chunk_meta(chunk_content, chunk_type_candidate,
                                p.language, start_line, end_line, node_name,
                                effective_parent_name, None)>>
                 parent_name_for_children ==
                     IF node_name # None THEN node_name ELSE effective_parent_name
             IN  [nodes_to_process |->
                      rest \o [k \in 1..Len(kids) |-> <<kids[k], parent_name_for_children>>],
                  processed_node_ids |-> st.processed_node_ids \cup {current_node_id},
                  covered_lines |->
                      [i \in 1..Len(st.covered_lines) |->
                          st.covered_lines[i] \/ (start_line <= i /\ i <= end_line)],
                  all_chunks |-> st.all_chunks \o emitted]
        ELSE [st EXCEPT
                 !.nodes_to_process =
                     rest \o [k \in 1..Len(kids) |->
                                 <<kids[k], parent_name_for_this_node_context>>],
                 !.processed_node_ids = @ \cup {current_node_id}]

\* the body of the while loop of TreeSitterCodeChunker.chunk for the head of
\* nodes_to_process
TSProcessNode(p, st) ==
    LET current_node_id == st.nodes_to_process[1][1]
        parent_name_for_this_node_context == st.nodes_to_process[1][2]
        rest == Tail(st.nodes_to_process)
        current_node == p.nodes[current_node_id]
        kids == Children(p.nodes, current_node_id)
    IN  IF current_node_id \in st.processed_node_ids \/ current_node.type = "ERROR"
        THEN [st EXCEPT !.nodes_to_process = rest]
        ELSE IF current_node.type \in DOMAIN NODE_TYPE_TO_CHUNK_TYPE
        THEN LET chunk_type_candidate == NODE_TYPE_TO_CHUNK_TYPE[current_node.type]
                 nc == _get_node_content(current_node, p.lines)
                 chunk_content == nc[1]
                 start_line == nc[2]
                 end_line == nc[3]
                 node_name == _get_node_name(current_node)
                 effective_parent_name == parent_name_for_this_node_context
                 sub_chunks ==
                     GenericChunker_chunk([content |-> chunk_content,
                                           file_type |-> p.file_type],
                                          p.size, p.overlap)
                 emitted ==
                     IF Len(chunk_content) > p.size /\ p.size > 0
                     THEN [k \in 1..Len(sub_chunks) |->
                              [sub_chunks[k] EXCEPT
                                  !.start_line = @ + (start_line - 1),
                                  !.end_line   = @ + (start_line - 1),
                                  !.chunk_type = IF node_name # None
                                                 THEN chunk_type_candidate \o "_part"
                                                 ELSE "code_block",
                                  !.language    = p.language,
                                  !.name        = node_name,
                                  !.parent_name = effective_parent_name]]
                     ELSE <<_create_base_chunk_meta(chunk_content, chunk_type_candidate,
                                p.language, start_line, end_line, node_name,
                                effective_parent_name, None)>>
                 parent_name_for_children ==
                     IF node_name # None THEN node_name ELSE effective_parent_name
             IN  [nodes_to_process |->
                      rest \o [k \in 1..Len(kids) |-> <<kids[k], parent_name_for_children>>],
                  processed_node_ids |-> st.processed_node_ids \cup {current_node_id},
                  covered_lines |->
                      [i \in 1..Len(st.covered_lines) |->
                          st.covered_lines[i] \/ (start_line <= i /\ i <= end_line)],
                  all_chunks |-> st.all_chunks \o emitted]
        ELSE [st EXCEPT
                 !.nodes_to_process =
                     rest \o [k \in 1..Len(kids) |->
                                 <<kids[k], parent_name_for_this_node_context>>],
                 !.processed_node_ids = @ \cup {current_node_id}]

RECURSIVE TSWorklist(_, _)
TSWorklist(p, st) ==
    IF st.nodes_to_process = <<>> THEN st ELSE TSWorklist(p, TSProcessNode(p, st))

\* TreeSitterCodeChunker.chunk; tr is what self.parser.parse answers
TreeSitterCodeChunker_chunk(d, tr, language_str, size, overlap) ==
    IF Strip(d.content) = <<>> THEN <<>>
    ELSE IF tr.status = "throws" THEN GenericChunker_chunk(d, size, overlap)
    ELSE LET lines == SplitLines(d.content)
             root_children == Children(tr.nodes, 1)
         IN  IF root_children # <<>> /\ tr.nodes[root_children[1]].type = "ERROR"
             THEN GenericChunker_chunk(d, size, overlap)
             ELSE LET p == [nodes |-> tr.nodes, lines |-> lines,
                            file_type |-> d.file_type, language |-> language_str,
                            size |-> size, overlap |-> overlap]
                      st == TSWorklist(p,
                                [nodes_to_process |-> << <<1, None>> >>,
                                 processed_node_ids |-> {},
                                 covered_lines |-> [i \in 1..Len(lines) |-> FALSE],
                                 all_chunks |-> <<>>])
                      uncovered_blocks ==
                          BlockScan([i \in 1..Len(lines) |->
                                        ~st.covered_lines[i] /\ Strip(lines[i]) # <<>>],
                                    1, -1, <<>>)
                  IN  SortByStartLine(st.all_chunks \o
                          TopLevelChunks(uncovered_blocks, lines, d.file_type,
                                         language_str, size, overlap))

----------------------------------------------------------------------------
(* PythonChunker.  An AST node carries lineno, end_lineno (1-indexed), the   *)
(* line of its first decorator (0 without decorators) and its name.         *)

\* PythonASTVisitor._get_node_source_with_decorators:
\* <<chunk_content, start_line, end_line>>.  The last statement of a body ends
\* where its node ends, so the max over the body leaves end_lineno as it is.
_get_node_source_with_decorators(node, lines) ==
    LET start_line_0_indexed ==
            IF node.decorator_lineno # 0
            THEN Min(node.lineno - 1, node.decorator_lineno - 1)
            ELSE node.lineno - 1
        end_line_0_indexed == Min(node.end_lineno - 1, Len(lines) - 1)
    IN  <<Strip(Join(ListSlice(lines, start_line_0_indexed, end_line_0_indexed + 1))),
          start_line_0_indexed + 1, end_line_0_indexed + 1>>

\* PythonASTVisitor._add_chunk: the visitor's buffers after the call
_add_chunk(p, st, node, chunk_type, name, parent_name) ==
    LET src == _get_node_source_with_decorators(node, p.lines)
        start_line == src[2]
        end_line == src[3]
    IN  [covered_lines |->
             [i \in 1..Len(st.covered_lines) |->
                 st.covered_lines[i] \/ (start_line <= i /\ i <= end_line)],
         all_chunks |->
             Append(st.all_chunks,
                 _create_base_chunk_meta(src[1], chunk_type, "python", start_line,
                                         end_line, name, parent_name, None))]

RECURSIVE PyVisit(_, _, _, _)
RECURSIVE generic_visit(_, _, _, _)

\* ast.NodeVisitor.generic_visit: visit the children in order
generic_visit(p, kids, class_stack, st) ==
    IF kids = <<>> THEN st
    ELSE generic_visit(p, Tail(kids), class_stack,
                       PyVisit(p, kids[1], class_stack, st))

\* PythonASTVisitor.visit: visit_ClassDef, visit_FunctionDef,
\* visit_AsyncFunctionDef, and generic_visit for every other node
PyVisit(p, id, class_stack, st) ==
    LET node == p.nodes[id]
        kids == Children(p.nodes, id)
        parent_name == IF class_stack # <<>> THEN class_stack[Len(class_stack)]
                       ELSE None
    IN  IF node.type = "ClassDef"
        THEN generic_visit(p, kids, Append(class_stack, node.name),
                           _add_chunk(p, st, node, "class", node.name, None))
        ELSE IF node.type = "FunctionDef"
        THEN generic_visit(p, kids, class_stack,
                           _add_chunk(p, st, node,
                                      IF parent_name # None THEN "method" ELSE "function",
                                      node.name, parent_name))
        ELSE IF node.type = "AsyncFunctionDef"
        THEN generic_visit(p, kids, class_stack,
                           _add_chunk(p, st, node,
                                      IF parent_name # None THEN "async_method"
                                      ELSE "async_function",
                                      node.name, parent_name))
        ELSE generic_visit(p, kids, class_stack, st)

\* PythonChunker.chunk when ast.parse and the visitor return: tr.status is
\* "ok" (tr.nodes is the AST) or "SyntaxError"
PythonChunker_chunk(d, tr, size, overlap) ==
    IF Strip(d.content) = <<>> THEN <<>>
    ELSE IF tr.status = "SyntaxError" THEN GenericChunker_chunk(d, size, overlap)
    ELSE LET lines == SplitLines(d.content)
             p == [nodes |-> tr.nodes, lines |-> lines]
             st == PyVisit(p, 1, <<>>,
                       [covered_lines |-> [i \in 1..Len(lines) |-> FALSE],
                        all_chunks |-> <<>>])
             uncovered_blocks ==
                 BlockScan([i \in 1..Len(lines) |-> ~st.covered_lines[i]], 1, -1, <<>>)
         IN  SortByStartLine(st.all_chunks \o
                 TopLevelChunks(uncovered_blocks, lines, d.file_type, "python",
                                size, overlap))

\* whether PythonChunker.chunk raises: only SyntaxError is caught, and only
\* around ast.parse; any other error of ast.parse or of the recursive visitor
\* (RecursionError on a deep tree) leaves chunk()
PythonChunker_raises(d, tr) ==
    Strip(d.content) # <<>> /\ tr.status = "RecursionError"

----------------------------------------------------------------------------
(* Inputs *)

\* all sequences over S of length 0..n
RECURSIVE SeqsUpTo(_, _)
SeqsUpTo(S, n) ==
    IF n = 0 THEN {<<>>}
    ELSE LET shorter == SeqsUpTo(S, n - 1)
         IN  shorter \cup {Append(s, c) : s \in {t \in shorter : Len(t) = n - 1}, c \in S}

\* raw contents for the Generic Window Chunker: lines end in LF or in CRLF
\* (no CR on its own)
RawContents ==
    {c \in SeqsUpTo(Alphabet, MaxLen) \ {<<>>} :
        \A i \in 1..Len(c) : c[i] = CR => (i < Len(c) /\ c[i + 1] = LF)}

\* the lines markdown files are made of: blank, text, an H1, an H2, a fence
MdLineSet == {<<>>, <<"a">>, <<"#", " ", "a">>, <<"#", "#", " ", "b">>, Fence}

MdContents == {Join(ls) : ls \in SeqsUpTo(MdLineSet, MaxMdLines) \ {<<>>}}

\* the lines source files are made of: blank, code, a form feed (page break)
CodeLineSet == {<<>>, <<"a">>, <<FF>>}

CodeContents == {Join(ls) : ls \in SeqsUpTo(CodeLineSet, MaxCodeLines) \ {<<>>}}

\* (chunk_size, chunk_overlap) with the overlap below the size, as every
\* chunker of the repository is constructed
Configs == {c \in (1..MaxChunkSize) \X (0..MaxChunkSize) : c[2] < c[1]}

\* the pairs of the Generic Window Chunker on its own: overlap below, equal to
\* and one above the size
WindowConfigs == {c \in (1..MaxChunkSize) \X (0..(MaxChunkSize + 1)) : c[2] <= c[1] + 1}

\* the 0-indexed (first row, last row) pairs a node may span: a node starts
\* and ends on a line that holds text
Spans(lines) ==
    {sp \in (0..(Len(lines) - 1)) \X (0..(Len(lines) - 1)) :
        /\ sp[1] <= sp[2]
        /\ Strip(lines[sp[1] + 1]) # <<>>
        /\ Strip(lines[sp[2] + 1]) # <<>>}

\* a second node lies inside the first, or follows it as its sibling (two
\* siblings may share a line)
Inside(sp, outer) == outer[1] <= sp[1] /\ sp[2] <= outer[2]
After(sp, first) == first[2] <= sp[1]

\* tree-sitter nodes: (type, name) of a first and of a second node
TSKinds1 == {<<"class_declaration", <<"A">>>>, <<"function_definition", None>>,
             <<"ERROR", None>>, <<"expression_statement", None>>}
TSKinds2 == {<<"method_definition", <<"B">>>>, <<"ERROR", None>>,
             <<"expression_statement", None>>}

TSNode(kind, sp, parent) ==
    [type |-> kind[1], name |-> kind[2], start_row |-> sp[1], end_row |-> sp[2],
     parent |-> parent]

\* the trees the parser may answer for a file: a root (program, or ERROR when
\* nothing of the file parsed) with no, one or two nodes under it
TSTrees(lines) ==
    LET roots == {TSNode(<<t, None>>, <<0, Len(lines) - 1>>, 0) : t \in {"program", "ERROR"}}
        one == {<<r, TSNode(k, sp, 1)>> : r \in roots, k \in TSKinds1, sp \in Spans(lines)}
        second(t, par) ==
            {s \in Spans(lines) :
                IF par = 2 THEN Inside(s, <<t[2].start_row, t[2].end_row>>)
                ELSE After(s, <<t[2].start_row, t[2].end_row>>)}
        two == UNION {
                 UNION {{Append(t, TSNode(k, sp, par)) :
                            k \in TSKinds2, sp \in second(t, par)}
                        : par \in {1, 2}}
                 : t \in one}
    IN  {<<r>> : r \in roots} \cup one \cup two

TSParses(content) ==
    {[status |-> "throws", nodes |-> <<>>]}
    \cup {[status |-> "ok", nodes |-> t] : t \in TSTrees(ParserLines(content))}

\* Python AST nodes: (type, name, decorated) of a first and of a second node
PyKinds1 == {<<"ClassDef", <<"A">>, FALSE>>, <<"FunctionDef", <<"A">>, FALSE>>,
             <<"FunctionDef", <<"A">>, TRUE>>, <<"AsyncFunctionDef", <<"A">>, FALSE>>,
             <<"If", None, FALSE>>}
PyKinds2 == {<<"FunctionDef", <<"B">>, FALSE>>, <<"If", None, FALSE>>}

\* a decorated definition: the decorator on the line before the def line
PyNode(kind, sp, parent) ==
    [type |-> kind[1], name |-> kind[2],
     lineno |-> IF kind[3] THEN sp[1] + 2 ELSE sp[1] + 1,
     end_lineno |-> sp[2] + 1,
     decorator_lineno |-> IF kind[3] THEN sp[1] + 1 ELSE 0,
     parent |-> parent]

PyTrees(lines) ==
    LET root == [type |-> "Module", name |-> None, lineno |-> 1,
                 end_lineno |-> Len(lines), decorator_lineno |-> 0, parent |-> 0]
        \* a decorated definition spans the decorator line and the def line
        first(k) ==
            {s \in Spans(lines) :
                k[3] => (s[1] < s[2] /\ Strip(lines[s[1] + 2]) # <<>>)}
        one == UNION {{<<root, PyNode(k, sp, 1)>> : sp \in first(k)} : k \in PyKinds1}
        \* a statement inside a compound statement starts after its first
        \* line and ends with it at the latest; a sibling starts on a later line
        second(t, par) ==
            {s \in Spans(lines) :
                IF par = 2
                THEN Inside(s, <<t[2].lineno - 1, t[2].end_lineno - 1>>)
                     /\ s[1] > t[2].lineno - 1
                ELSE s[1] > t[2].end_lineno - 1}
        two == UNION {
                 UNION {{Append(t, PyNode(k, sp, par)) :
                            k \in PyKinds2, sp \in second(t, par)}
                        : par \in {1, 2}}
                 : t \in one}
    IN  {<<root>>} \cup one \cup two

\* ast.parse answers a tree, raises SyntaxError, or fails otherwise
\* (RecursionError on deeply nested source, also raised by the visitor)
PyParses(content) ==
    {[status |-> "SyntaxError", nodes |-> <<>>],
     [status |-> "RecursionError", nodes |-> <<>>]}
    \cup {[status |-> "ok", nodes |-> t] : t \in PyTrees(ParserLines(content))}

Strategies == {"generic", "markdown", "tree_sitter", "python"}

Docs(s) ==
    IF s = "generic" THEN {[content |-> c, file_type |-> "txt"] : c \in RawContents}
    ELSE IF s = "markdown" THEN {[content |-> c, file_type |-> "md"] : c \in MdContents}
    ELSE IF s = "tree_sitter" THEN {[content |-> c, file_type |-> "js"] : c \in CodeContents}
    ELSE {[content |-> c, file_type |-> "py"] : c \in CodeContents}

\* the strategies that parse nothing
NoParse == [status |-> "none", nodes |-> <<>>]

Parses(s, d) ==
    IF s = "tree_sitter" THEN TSParses(d.content)
    ELSE IF s = "python" THEN PyParses(d.content)
    ELSE {NoParse}

\* the language a TreeSitterCodeChunker of the model is constructed for
LanguageStr == "javascript"

----------------------------------------------------------------------------
(* The chunkers: chunk() applied to a document *)

\* no conversation is kept and no query is under way
NoQuery ==
    /\ conversations = <<>>
    /\ calls = <<>>
    /\ returned = <<>>
    /\ request = <<>>
    /\ outcomes = <<>>
    /\ response = <<>>

\* no ingestion run is under way
NoRun ==
    /\ raw_file_docs = <<>>
    /\ file_idx = <<>>
    /\ run_pc = <<>>
    /\ chunker_instance = <<>>
    /\ all_semantic_chunks = <<>>
    /\ chunks_for_file = <<>>
    /\ tree_sitter_chunker_cache = {}
    /\ constructions = <<>>

Init ==
    /\ strategy \in Strategies
    /\ doc \in Docs(strategy)
    /\ \E c \in Configs : chunk_size = c[1] /\ chunk_overlap = c[2]
    /\ parse \in Parses(strategy, doc)
    /\ current_char_offset = 0
    /\ chunks = <<>>
    /\ iterations = 0
    /\ md = MdStart
    /\ position = NoPosition
    /\ pc = "start"
    /\ NoRun
    /\ NoQuery

Returns(cs) ==
    /\ chunks' = cs
    /\ pc' = "done"
    /\ UNCHANGED <<strategy, doc, chunk_size, chunk_overlap, parse,
                   current_char_offset, iterations, md, position>>
    /\ UNCHANGED <<dispatchVars, queryVars>>

ChunkGeneric ==
    /\ strategy = "generic" /\ pc = "start"
    /\ Returns(GenericChunker_chunk(doc, chunk_size, chunk_overlap))

ChunkMarkdown ==
    /\ strategy = "markdown" /\ pc = "start"
    /\ Returns(MarkdownChunker_chunk(doc, chunk_size, chunk_overlap))

ChunkTreeSitter ==
    /\ strategy = "tree_sitter" /\ pc = "start"
    /\ Returns(TreeSitterCodeChunker_chunk(doc, parse, LanguageStr,
                                           chunk_size, chunk_overlap))

ChunkPython ==
    /\ strategy = "python" /\ pc = "start"
    /\ ~PythonChunker_raises(doc, parse)
    /\ Returns(PythonChunker_chunk(doc, parse, chunk_size, chunk_overlap))

ChunkPythonRaises ==
    /\ strategy = "python" /\ pc = "start"
    /\ PythonChunker_raises(doc, parse)
    /\ pc' = "raised"
    /\ UNCHANGED <<strategy, doc, chunk_size, chunk_overlap, parse,
                   current_char_offset, chunks, iterations, md, position>>
    /\ UNCHANGED <<dispatchVars, queryVars>>

Next ==
    \/ ChunkGeneric
    \/ ChunkMarkdown
    \/ ChunkTreeSitter
    \/ ChunkPython
    \/ ChunkPythonRaises

Spec == Init /\ [][Next]_vars

----------------------------------------------------------------------------
(* The Generic Window Chunker, one loop iteration at a time *)

InitWindow ==
    /\ strategy = "generic"
    /\ doc \in Docs("generic")
    /\ \E c \in WindowConfigs : chunk_size = c[1] /\ chunk_overlap = c[2]
    /\ parse = NoParse
    /\ current_char_offset = 0
    /\ chunks = <<>>
    /\ iterations = 0
    /\ md = MdStart
    /\ position = NoPosition
    /\ pc = "start"
    /\ NoRun
    /\ NoQuery

\* GenericChunker.chunk, up to the loop: empty or whitespace-only content
\* returns []
GenericBegin ==
    /\ pc = "start"
    /\ pc' = IF Strip(doc.content) = <<>> THEN "done" ELSE "loop"
    /\ UNCHANGED <<strategy, doc, chunk_size, chunk_overlap, parse,
                   current_char_offset, chunks, iterations, md, position>>
    /\ UNCHANGED <<dispatchVars, queryVars>>

\* one iteration of the while loop
GenericIterate ==
    /\ pc = "loop"
    /\ current_char_offset < Len(doc.content)
    /\ iterations < MaxIter
    /\ LET r == GenericIteration(doc.content, doc.file_type, chunk_size,
                                 chunk_overlap, current_char_offset, chunks)
       IN  /\ current_char_offset' = r.cur
           /\ chunks' = r.chunks
    /\ iterations' = iterations + 1
    /\ UNCHANGED <<strategy, doc, chunk_size, chunk_overlap, parse, md, position, pc>>
    /\ UNCHANGED <<dispatchVars, queryVars>>

\* the loop condition fails: return chunks
GenericReturn ==
    /\ pc = "loop"
    /\ ~(current_char_offset < Len(doc.content))
    /\ pc' = "done"
    /\ UNCHANGED <<strategy, doc, chunk_size, chunk_overlap, parse,
                   current_char_offset, chunks, iterations, md, position>>
    /\ UNCHANGED <<dispatchVars, queryVars>>

NextWindow ==
    \/ GenericBegin
    \/ GenericIterate
    \/ GenericReturn

SpecWindow == InitWindow /\ [][NextWindow]_vars

----------------------------------------------------------------------------
(* The Chunk Dispatcher: process_repository_for_rag, one step of one run at  *)
(* a time.  A run is one call of process_repository_for_rag; the ingestion  *)
(* endpoint starts each call as a background task of its own, and the tasks *)
(* share the module-level chunker instances and the cache.                  *)

DEFAULT_CHUNK_SIZE == 1500
DEFAULT_CHUNK_OVERLAP == 200

\* most files of one run
MaxFiles == 3
\* most files of each of two runs under way at the same time
MaxConcurrentFiles == 1

TREE_SITTER_LANGUAGE_MAP ==
    ("js" :> "javascript") @@ ("ts" :> "typescript") @@ ("jsx" :> "javascript") @@
    ("tsx" :> "typescript") @@ ("go" :> "go") @@ ("rb" :> "ruby") @@ ("rs" :> "rust") @@
    ("java" :> "java") @@ ("c" :> "c") @@ ("cpp" :> "cpp") @@ ("h" :> "cpp") @@
    ("hpp" :> "cpp") @@ ("cs" :> "c_sharp") @@ ("php" :> "php") @@ ("dart" :> "dart") @@
    ("html" :> "html") @@ ("css" :> "css")

\* a chunker object: its class, the language it was constructed for and the
\* construction that made it (0: made when the module was loaded)
Instance(class, language, id) == [class |-> class, language |-> language, id |-> id]

generic_chunker_instance == Instance("GenericChunker", "", 0)
python_chunker_instance == Instance("PythonChunker", "", 0)
markdown_chunker_instance == Instance("MarkdownChunker", "", 0)

CHUNKER_MAP ==
    ("txt" :> generic_chunker_instance) @@ ("json" :> generic_chunker_instance) @@
    ("xml" :> generic_chunker_instance) @@ ("yaml" :> generic_chunker_instance) @@
    ("yml" :> generic_chunker_instance) @@ ("md" :> markdown_chunker_instance) @@
    ("py" :> python_chunker_instance)

\* a lookup that never finds the language
InCacheNever(cache, lang) == FALSE

\* the cache is a dict: at most one entry per language
InCache(cache, lang) == \E e \in cache : e.lang = lang
CacheGet(cache, lang) == (CHOOSE e \in cache : e.lang = lang).chunker
CachePut(cache, lang, chunker) ==
    {e \in cache : e.lang # lang} \cup {[lang |-> lang, chunker |-> chunker]}

\* chunker_instance.chunk(doc) when it returns
ChunkOf(instance, d) ==
    IF instance.class = "GenericChunker"
    THEN GenericChunker_chunk(d, DEFAULT_CHUNK_SIZE, DEFAULT_CHUNK_OVERLAP)
    ELSE IF instance.class = "MarkdownChunker"
    THEN MarkdownChunker_chunk(d, DEFAULT_CHUNK_SIZE, DEFAULT_CHUNK_OVERLAP)
    ELSE IF instance.class = "PythonChunker"
    THEN PythonChunker_chunk(d, d.parse, DEFAULT_CHUNK_SIZE, DEFAULT_CHUNK_OVERLAP)
    ELSE TreeSitterCodeChunker_chunk(d, d.parse, instance.language,
                                     DEFAULT_CHUNK_SIZE, DEFAULT_CHUNK_OVERLAP)

\* chunker_instance.chunk(doc) raises: only PythonChunker lets an error out
ChunkRaises(instance, d) ==
    instance.class = "PythonChunker" /\ PythonChunker_raises(d, d.parse)

\* the files of a repository: content, file_type and what the language
\* backend answers when the file is parsed
RawFile(content, file_type, answer) ==
    [content |-> content, file_type |-> file_type, parse |-> answer]

OneLineProgram ==
    [status |-> "ok",
     nodes |-> <<TSNode(<<"program", None>>, <<0, 0>>, 0)>>]
OneLineModule ==
    [status |-> "ok",
     nodes |-> <<[type |-> "Module", name |-> None, lineno |-> 1, end_lineno |-> 1,
                  decorator_lineno |-> 0, parent |-> 0]>>]

RawFiles ==
    {RawFile(<<"a">>, "txt", NoParse),
     RawFile(<<"#", " ", "a">>, "md", NoParse),
     RawFile(<<"a">>, "py", OneLineModule),
     RawFile(<<"a">>, "py", [status |-> "RecursionError", nodes |-> <<>>]),
     RawFile(<<"a">>, "js", OneLineProgram),
     RawFile(<<"a">>, "jsx", OneLineProgram),
     RawFile(<<"a">>, "ts", OneLineProgram),
     RawFile(<<"a">>, "bin", NoParse)}

InitRuns(runs, most) ==
    /\ raw_file_docs \in [runs -> SeqsUpTo(RawFiles, most)]
    /\ file_idx = [r \in runs |-> 1]
    /\ run_pc = [r \in runs |-> "start"]
    /\ chunker_instance = [r \in runs |-> generic_chunker_instance]
    /\ all_semantic_chunks = [r \in runs |-> <<>>]
    /\ chunks_for_file = [r \in runs |-> <<>>]
    /\ tree_sitter_chunker_cache = {}
    /\ constructions = <<>>
    /\ strategy = "dispatch"
    /\ doc = RawFile(<<>>, "", NoParse)
    /\ chunk_size = DEFAULT_CHUNK_SIZE
    /\ chunk_overlap = DEFAULT_CHUNK_OVERLAP
    /\ parse = NoParse
    /\ current_char_offset = 0
    /\ chunks = <<>>
    /\ iterations = 0
    /\ md = MdStart
    /\ position = NoPosition
    /\ pc = "dispatch"
    /\ NoQuery

\* process_repository_for_rag up to the loop: no files, return []
Download(r) ==
    /\ run_pc[r] = "start"
    /\ run_pc' = [run_pc EXCEPT ![r] = IF raw_file_docs[r] = <<>> THEN "done" ELSE "select"]
    /\ UNCHANGED <<raw_file_docs, file_idx, chunker_instance, all_semantic_chunks, chunks_for_file,
                   tree_sitter_chunker_cache, constructions>>
    /\ UNCHANGED <<chunkVars, queryVars>>

\* a loop head that does not look into CHUNKER_MAP
SelectWithoutChunkerMap(r) ==
    /\ run_pc[r] = "select"
    /\ file_idx[r] <= Len(raw_file_docs[r])
    /\ LET file_type == raw_file_docs[r][file_idx[r]].file_type
       IN  IF file_type \in DOMAIN TREE_SITTER_LANGUAGE_MAP
           THEN LET ts_language_name == TREE_SITTER_LANGUAGE_MAP[file_type]
                IN  IF InCache(tree_sitter_chunker_cache, ts_language_name)
                    THEN /\ chunker_instance' =
                                [chunker_instance EXCEPT
                                    ![r] = CacheGet(tree_sitter_chunker_cache,
                                                    ts_language_name)]
                         /\ run_pc' = [run_pc EXCEPT ![r] = "chunk"]
                    ELSE /\ chunker_instance' =
                                [chunker_instance EXCEPT ![r] = generic_chunker_instance]
                         /\ run_pc' = [run_pc EXCEPT ![r] = "construct"]
           ELSE /\ chunker_instance' =
                       [chunker_instance EXCEPT ![r] = generic_chunker_instance]
                /\ run_pc' = [run_pc EXCEPT ![r] = "chunk"]
    /\ UNCHANGED <<raw_file_docs, file_idx, all_semantic_chunks, chunks_for_file,
                   tree_sitter_chunker_cache, constructions>>
    /\ UNCHANGED <<chunkVars, queryVars>>

\* the head of the loop body: CHUNKER_MAP first, then TREE_SITTER_LANGUAGE_MAP
\* (get_tree_sitter_chunker finds the language in the cache, or goes on to
\* construct a chunker), then the generic default
Select(r) ==
    /\ run_pc[r] = "select"
    /\ file_idx[r] <= Len(raw_file_docs[r])
    /\ LET file_type == raw_file_docs[r][file_idx[r]].file_type
       IN  IF file_type \in DOMAIN CHUNKER_MAP
           THEN /\ chunker_instance' = [chunker_instance EXCEPT ![r] = CHUNKER_MAP[file_type]]
                /\ run_pc' = [run_pc EXCEPT ![r] = "chunk"]
           ELSE IF file_type \in DOMAIN TREE_SITTER_LANGUAGE_MAP
           THEN LET ts_language_name == TREE_SITTER_LANGUAGE_MAP[file_type]
                IN  IF InCache(tree_sitter_chunker_cache, ts_language_name)
                    THEN /\ chunker_instance' =
                                [chunker_instance EXCEPT
                                    ![r] = CacheGet(tree_sitter_chunker_cache,
                                                    ts_language_name)]
                         /\ run_pc' = [run_pc EXCEPT ![r] = "chunk"]
                    ELSE /\ chunker_instance' =
                                [chunker_instance EXCEPT ![r] = generic_chunker_instance]
                         /\ run_pc' = [run_pc EXCEPT ![r] = "construct"]
           ELSE /\ chunker_instance' =
                       [chunker_instance EXCEPT ![r] = generic_chunker_instance]
                /\ run_pc' = [run_pc EXCEPT ![r] = "chunk"]
    /\ UNCHANGED <<raw_file_docs, file_idx, all_semantic_chunks, chunks_for_file,
                   tree_sitter_chunker_cache, constructions>>
    /\ UNCHANGED <<chunkVars, queryVars>>

\* get_tree_sitter_chunker after `lang not in tree_sitter_chunker_cache`:
\* TreeSitterCodeChunker(...) either answers a chunker, which is stored in
\* the cache and returned, or raises, and None is returned with the cache
\* left as it is
Construct(r) ==
    /\ run_pc[r] = "construct"
    /\ LET lang == TREE_SITTER_LANGUAGE_MAP[raw_file_docs[r][file_idx[r]].file_type]
       IN  \E loaded \in BOOLEAN :
              /\ constructions' = Append(constructions, <<lang, loaded>>)
              /\ IF loaded
                 THEN LET chunker == Instance("TreeSitterCodeChunker", lang,
                                              Len(constructions) + 1)
                      IN  /\ tree_sitter_chunker_cache' =
                                 CachePut(tree_sitter_chunker_cache, lang, chunker)
                          /\ chunker_instance' = [chunker_instance EXCEPT ![r] = chunker]
                 ELSE /\ UNCHANGED tree_sitter_chunker_cache
                      /\ UNCHANGED chunker_instance
    /\ run_pc' = [run_pc EXCEPT ![r] = "chunk"]
    /\ UNCHANGED <<raw_file_docs, file_idx, all_semantic_chunks, chunks_for_file>>
    /\ UNCHANGED <<chunkVars, queryVars>>

\* chunker_instance.chunk(doc) is entered
BeginChunk(r) ==
    /\ run_pc[r] = "chunk"
    /\ run_pc' = [run_pc EXCEPT ![r] = "chunking"]
    /\ UNCHANGED <<raw_file_docs, file_idx, chunker_instance, all_semantic_chunks, chunks_for_file,
                   tree_sitter_chunker_cache, constructions>>
    /\ UNCHANGED <<chunkVars, queryVars>>

\* chunk() returns: its chunks are appended and the loop goes on
EndChunk(r) ==
    /\ run_pc[r] = "chunking"
    /\ ~ChunkRaises(chunker_instance[r], raw_file_docs[r][file_idx[r]])
    /\ all_semantic_chunks' =
           [all_semantic_chunks EXCEPT
               ![r] = @ \o ChunkOf(chunker_instance[r], raw_file_docs[r][file_idx[r]])]
    /\ chunks_for_file' =
           [chunks_for_file EXCEPT
               ![r] = Append(@, ChunkOf(chunker_instance[r], raw_file_docs[r][file_idx[r]]))]
    /\ file_idx' = [file_idx EXCEPT ![r] = @ + 1]
    /\ run_pc' = [run_pc EXCEPT ![r] = "select"]
    /\ UNCHANGED <<raw_file_docs, chunker_instance, tree_sitter_chunker_cache,
                   constructions>>
    /\ UNCHANGED <<chunkVars, queryVars>>

\* chunk() raises: nothing in process_repository_for_rag catches it
RaiseFromChunk(r) ==
    /\ run_pc[r] = "chunking"
    /\ ChunkRaises(chunker_instance[r], raw_file_docs[r][file_idx[r]])
    /\ run_pc' = [run_pc EXCEPT ![r] = "raised"]
    /\ UNCHANGED <<raw_file_docs, file_idx, chunker_instance, all_semantic_chunks, chunks_for_file,
                   tree_sitter_chunker_cache, constructions>>
    /\ UNCHANGED <<chunkVars, queryVars>>

\* the loop is over: return all_semantic_chunks
ReturnChunks(r) ==
    /\ run_pc[r] = "select"
    /\ file_idx[r] > Len(raw_file_docs[r])
    /\ run_pc' = [run_pc EXCEPT ![r] = "done"]
    /\ UNCHANGED <<raw_file_docs, file_idx, chunker_instance, all_semantic_chunks, chunks_for_file,
                   tree_sitter_chunker_cache, constructions>>
    /\ UNCHANGED <<chunkVars, queryVars>>

RunStep(r) ==
    \/ Download(r)
    \/ Select(r)
    \/ Construct(r)
    \/ BeginChunk(r)
    \/ EndChunk(r)
    \/ RaiseFromChunk(r)
    \/ ReturnChunks(r)

\* one run on its own
InitDispatch == InitRuns({1}, MaxFiles)
NextDispatch == RunStep(1)
SpecDispatch == InitDispatch /\ [][NextDispatch]_vars

\* two runs started by two requests to /ingest-repo, each a background task
InitConcurrent == InitRuns({1, 2}, MaxConcurrentFiles)
NextConcurrent == \E r \in {1, 2} : RunStep(r)
SpecConcurrent == InitConcurrent /\ [][NextConcurrent]_vars

----------------------------------------------------------------------------
(* The Markdown chunker, one line of the file at a time *)

\* the chunker as repo_processer constructs it; MarkdownChunker.chunk reads
\* neither chunk_size nor chunk_overlap
InitMarkdown ==
    /\ strategy = "markdown"
    /\ doc \in Docs("markdown")
    /\ chunk_size = DEFAULT_CHUNK_SIZE
    /\ chunk_overlap = DEFAULT_CHUNK_OVERLAP
    /\ parse = NoParse
    /\ current_char_offset = 0
    /\ chunks = <<>>
    /\ iterations = 0
    /\ md = MdStart
    /\ position = NoPosition
    /\ pc = "start"
    /\ NoRun
    /\ NoQuery

\* MarkdownChunker.chunk, up to the loop: empty or whitespace-only content
\* returns []
MarkdownBegin ==
    /\ pc = "start"
    /\ pc' = IF Strip(doc.content) = <<>> THEN "done" ELSE "loop"
    /\ UNCHANGED <<strategy, doc, chunk_size, chunk_overlap, parse,
                   current_char_offset, chunks, iterations, md, position>>
    /\ UNCHANGED <<dispatchVars, queryVars>>

\* one pass of the for loop over lines
MarkdownStep ==
    /\ pc = "loop"
    /\ md.i < Len(SplitLines(doc.content))
    /\ md' = [MarkdownLine(SplitLines(doc.content)[md.i + 1], md.i + 1, md)
                 EXCEPT !.i = md.i + 1]
    /\ UNCHANGED <<strategy, doc, chunk_size, chunk_overlap, parse,
                   current_char_offset, chunks, iterations, position, pc>>
    /\ UNCHANGED <<dispatchVars, queryVars>>

\* after the loop: the last section is flushed, the chunks are sorted and
\* returned
MarkdownReturn ==
    /\ pc = "loop"
    /\ md.i = Len(SplitLines(doc.content))
    /\ md' = [md EXCEPT !.all_chunks =
                 IF md.current_section_lines # <<>>
                 THEN _add_markdown_section_chunk(@,
                          Strip(Join(md.current_section_lines)),
                          md.current_section_start_line,
                          Len(SplitLines(doc.content)), md.header_stack)
                 ELSE @]
    /\ chunks' = SortByStartLine(md'.all_chunks)
    /\ pc' = "done"
    /\ UNCHANGED <<strategy, doc, chunk_size, chunk_overlap, parse,
                   current_char_offset, iterations, position>>
    /\ UNCHANGED <<dispatchVars, queryVars>>

NextMarkdown ==
    \/ MarkdownBegin
    \/ MarkdownStep
    \/ MarkdownReturn

SpecMarkdown == InitMarkdown /\ [][NextMarkdown]_vars

----------------------------------------------------------------------------
(* The Position Mapper on its own: one call of _get_line_numbers *)

\* the lines and the number of lines a call is given
MaxLineLen == 2
MaxPositionLines == 3
PositionLines == SeqsUpTo(SeqsUpTo({"a"}, MaxLineLen), MaxPositionLines)

\* the length of the lines joined by single terminators, the last line
\* terminated too
TerminatedLength(content_lines) == Len(Join(content_lines) \o <<LF>>)

InitPosition ==
    /\ strategy = "position"
    /\ doc = RawFile(<<>>, "", NoParse)
    /\ chunk_size = DEFAULT_CHUNK_SIZE
    /\ chunk_overlap = DEFAULT_CHUNK_OVERLAP
    /\ parse = NoParse
    /\ current_char_offset = 0
    /\ chunks = <<>>
    /\ iterations = 0
    /\ md = MdStart
    /\ \E ls \in PositionLines : position = [NoPosition EXCEPT !.content_lines = ls]
    /\ pc = "start"
    /\ NoRun
    /\ NoQuery

\* self._get_line_numbers(content_lines, start_char, end_char) for a
\* half-open range inside the text
GetLineNumbers ==
    /\ pc = "start"
    /\ \E start_char \in 0..TerminatedLength(position.content_lines) :
       \E end_char \in 0..TerminatedLength(position.content_lines) :
          /\ start_char < end_char
          /\ position' = [position EXCEPT
                             !.start_char = start_char,
                             !.end_char = end_char,
                             !.result = _get_line_numbers(position.content_lines,
                                                          start_char, end_char)]
    /\ pc' = "done"
    /\ UNCHANGED <<strategy, doc, chunk_size, chunk_overlap, parse,
                   current_char_offset, chunks, iterations, md>>
    /\ UNCHANGED <<dispatchVars, queryVars>>

NextPosition == GetLineNumbers

SpecPosition == InitPosition /\ [][NextPosition]_vars

----------------------------------------------------------------------------
(* Properties of the chunk list returned for one file *)

\* the lines of the file handed to chunk()
FileLines == SplitLines(doc.content)

\* line i of the file lies inside the span of some returned chunk
Covered(i) ==
    \E k \in 1..Len(chunks) : chunks[k].start_line <= i /\ i <= chunks[k].end_line

\* C1 Coverage: when chunk() has returned, by whichever strategy, every
\* non-blank line of the file lies inside the [start_line, end_line] span of
\* at least one returned chunk; module-level code behind blank lines after a
\* function or class is inside the span of its top_level_code chunk.
C1_Coverage ==
    pc = "done" =>
        \A i \in 1..Len(FileLines) : Strip(FileLines[i]) # <<>> => Covered(i)

\* C3 Size bound: no returned chunk, of any strategy, has content longer than
\* chunk_size characters; a markdown section, function or class longer than
\* chunk_size is subdivided and never returned whole.
C3_SizeBound ==
    pc = "done" =>
        \A k \in 1..Len(chunks) : Len(chunks[k].content) <= chunk_size

\* the 1-indexed line of the file its character at 1-indexed position pos
\* lies on: a line ends with its LF (a CRLF pair ends with its LF)
LineOfChar(content, pos) ==
    1 + Cardinality({j \in 1..(pos - 1) : content[j] = LF})

\* text is cut from the file at some position whose first and last character
\* lie on lines start_line..end_line
TakenFromLines(content, text, start_line, end_line) ==
    \E o \in 1..(Len(content) - Len(text) + 1) :
        /\ SubSeq(content, o, o + Len(text) - 1) = text
        /\ start_line <= LineOfChar(content, o)
        /\ LineOfChar(content, o + Len(text) - 1) <= end_line

\* C4 Exact file-relative line ranges: the content of every returned chunk is
\* text of file lines start_line..end_line of the original file (LF or CRLF
\* line ends), also for the chunks of a sub-range of the file that went
\* through the Generic Window Chunker and were shifted by the sub-range's
\* start line.
C4_ExactLineRanges ==
    pc = "done" =>
        \A k \in 1..Len(chunks) :
            TakenFromLines(doc.content, chunks[k].content,
                           chunks[k].start_line, chunks[k].end_line)

\* C5 Span validity: every returned chunk has
\* 1 <= start_line <= end_line <= number of lines of the file.
C5_SpanValidity ==
    pc = "done" =>
        \A k \in 1..Len(chunks) :
            /\ 1 <= chunks[k].start_line
            /\ chunks[k].start_line <= chunks[k].end_line
            /\ chunks[k].end_line <= Len(FileLines)

\* the backend threw while parsing the file, or the parse of the whole file
\* is erroneous (a tree-sitter root of type ERROR)
WholeFileParseFailed ==
    \/ strategy = "python" /\ parse.status \in {"SyntaxError", "RecursionError"}
    \/ strategy = "tree_sitter" /\ parse.status = "throws"
    \/ strategy = "tree_sitter" /\ parse.status = "ok" /\ parse.nodes[1].type = "ERROR"

\* C8 Whole-file fallback: when the backend throws while parsing or the parse
\* of the whole file is erroneous, the structural chunker (tree-sitter and
\* native Python) returns exactly the list the Generic Window Chunker with
\* the same chunk_size and chunk_overlap returns for the same document.
C8_WholeFileFallback ==
    (pc # "start" /\ WholeFileParseFailed) =>
        /\ pc = "done"
        /\ chunks = GenericChunker_chunk(doc, chunk_size, chunk_overlap)

\* C10 Ordering: the list returned for one file by any strategy, the generic
\* fallback path included, is sorted by start_line in non-decreasing order.
C10_Ordering ==
    pc = "done" =>
        \A k \in 1..(Len(chunks) - 1) :
            chunks[k].start_line <= chunks[k + 1].start_line

----------------------------------------------------------------------------
(* Properties of the window loop *)

\* C2 Termination of window chunking: for chunk_size >= 1 and
\* chunk_overlap >= 0, chunk_overlap = chunk_size and chunk_overlap >
\* chunk_size included, every iteration of the loop of the Generic Window
\* Chunker moves the cursor forward by at least one character, skipped
\* whitespace windows included.
C2_CursorAdvances ==
    [][GenericIterate => current_char_offset' >= current_char_offset + 1]_vars

----------------------------------------------------------------------------
(* Properties of the dispatcher *)

\* C6 Error isolation across files: an error raised inside the selected
\* chunker for one file does not abort the run; process_repository_for_rag
\* goes on to the remaining files and returns, having worked through every
\* file of the repository.
C6_ErrorIsolation ==
    \A r \in DOMAIN run_pc :
        /\ run_pc[r] # "raised"
        /\ run_pc[r] = "done" => file_idx[r] > Len(raw_file_docs[r])

\* C7 Unavailable language is remembered: once constructing the Structural
\* Code Chunker for a language has failed during a run, construction for
\* that language is never attempted again (so every later file of the
\* language is chunked by the Generic chunker).
C7_UnavailableRemembered ==
    \A i \in 1..Len(constructions) : \A j \in 1..Len(constructions) :
        (i < j /\ ~constructions[i][2]) => constructions[j][1] # constructions[i][1]

\* C9 Concurrent ingestion safety: with two runs under way, access to the
\* cache is mutually exclusive (no two runs are inside
\* get_tree_sitter_chunker at once), at most one Structural Code Chunker is
\* ever constructed per language, and no chunker instance executes chunk()
\* for two files at the same moment.
C9_ConcurrentSafety ==
    /\ \A r1 \in DOMAIN run_pc : \A r2 \in DOMAIN run_pc :
          r1 # r2 =>
             /\ ~(run_pc[r1] = "construct" /\ run_pc[r2] = "construct")
             /\ ~(/\ run_pc[r1] = "chunking"
                  /\ run_pc[r2] = "chunking"
                  /\ chunker_instance[r1] = chunker_instance[r2])
    /\ \A i \in 1..Len(constructions) : \A j \in 1..Len(constructions) :
          (i < j /\ constructions[i][2] /\ constructions[j][2])
              => constructions[j][1] # constructions[i][1]

\* C11 Determinism: the same RawFileDocument chunked twice through the
\* dispatcher (same chunk_size and chunk_overlap) gives two identical chunk
\* lists, whatever was dispatched before or between the two calls.
C11_Determinism ==
    \A r \in DOMAIN chunks_for_file :
        \A i \in 1..Len(chunks_for_file[r]) : \A j \in 1..Len(chunks_for_file[r]) :
            raw_file_docs[r][i] = raw_file_docs[r][j]
                => chunks_for_file[r][i] = chunks_for_file[r][j]

----------------------------------------------------------------------------
(* The window sequence of the Generic Window Chunker *)

\* the stride, the number of windows and window k (k = 0, 1, ...) of the
\* content in hand
Stride == chunk_size - chunk_overlap
NumWindows == (Len(doc.content) + Stride - 1) \div Stride
Window(k) ==
    SubSeq(doc.content, k * Stride + 1, Min(k * Stride + chunk_size, Len(doc.content)))

\* the trimmed texts of the first n windows, the empty ones left out
RECURSIVE TrimmedWindows(_)
TrimmedWindows(n) ==
    IF n = 0 THEN <<>>
    ELSE IF Strip(Window(n - 1)) = <<>> THEN TrimmedWindows(n - 1)
    ELSE Append(TrimmedWindows(n - 1), Strip(Window(n - 1)))

ChunkContents == [k \in 1..Len(chunks) |-> chunks[k].content]

\* C12 Window sequence: for chunk_overlap < chunk_size the loop visits the
\* windows [k*s, min(k*s + chunk_size, len)), s = chunk_size - chunk_overlap,
\* k = 0 .. ceil(len/s) - 1, in this order; the windows cover every character
\* offset; and the chunks are one text_block per window with non-empty
\* trimmed text, in window order, none for an all-whitespace window.
C12_WindowSequence ==
    chunk_overlap < chunk_size =>
        /\ pc = "loop" => /\ current_char_offset = iterations * Stride
                          /\ iterations <= NumWindows
                          /\ ChunkContents = TrimmedWindows(iterations)
        /\ (pc = "done" /\ iterations > 0) => iterations = NumWindows
        /\ pc = "done" => ChunkContents = TrimmedWindows(NumWindows)
        /\ \A k \in 1..Len(chunks) : chunks[k].chunk_type = "text_block"
        /\ \A o \in 0..(Len(doc.content) - 1) :
              \E k \in 0..(NumWindows - 1) :
                  k * Stride <= o /\ o < Min(k * Stride + chunk_size, Len(doc.content))

\* chunk() has returned after four windows of which one was all whitespace
\* and was skipped
C12_Witness ==
    /\ pc = "done"
    /\ chunk_overlap < chunk_size
    /\ chunk_overlap > 0
    /\ iterations = 4
    /\ Len(chunks) = 3

----------------------------------------------------------------------------
(* Properties of the chunk metadata *)

ChunkKinds ==
    {"text_block", "top_level_code", "heading_section", "function", "method",
     "class", "struct", "interface", "module"}

\* C13 Closed chunk_type vocabulary: every returned chunk has a chunk_type
\* among text_block, top_level_code, heading_section, function, method,
\* class, struct, interface, module, or <one of these>_part; also for async
\* functions, object declarations and oversized units without a name.
C13_ChunkTypeVocabulary ==
    pc = "done" =>
        \A k \in 1..Len(chunks) :
            chunks[k].chunk_type \in ChunkKinds \cup {kind \o "_part" : kind \in ChunkKinds}

\* the line range of the k-th returned chunk
Range(k) == <<chunks[k].start_line, chunks[k].end_line>>

\* C14 No duplicate ranges: for one file, no two returned chunks have the
\* same (start_line, end_line) pair, whichever strategy produced them; this
\* includes consecutive windows that fall on the same line(s) and structural
\* units that share a line.
C14_NoDuplicateRanges ==
    pc = "done" =>
        \A i \in 1..Len(chunks) : \A j \in 1..Len(chunks) :
            i # j => Range(i) # Range(j)

\* the line ranges of the i-th and the j-th returned chunk have a line in common
Intersect(i, j) ==
    /\ chunks[i].start_line <= chunks[j].end_line
    /\ chunks[j].start_line <= chunks[i].end_line

\* a chunk cut by the sliding window: a text block, a top-level block, or a
\* part of an oversized unit
WindowChunk(k) ==
    \/ chunks[k].chunk_type \in {"text_block", "top_level_code", "code_block"}
    \/ \E kind \in ChunkKinds : chunks[k].chunk_type = kind \o "_part"

\* C15 Overlap discipline: two distinct chunks of one file have intersecting
\* line ranges only if they are consecutive overlapping windows of the
\* sliding window; the chunk of a class and the chunks of its methods never
\* intersect.
C15_OverlapDiscipline ==
    pc = "done" =>
        \A i \in 1..Len(chunks) : \A j \in 1..Len(chunks) :
            (i < j /\ Intersect(i, j)) =>
                /\ WindowChunk(i)
                /\ WindowChunk(j)
                /\ chunk_overlap > 0

----------------------------------------------------------------------------
(* Properties of the structural units *)

\* the node of the parse and everything above it was walked: no ERROR node
\* on the way from the root
RECURSIVE Walked(_)
Walked(n) ==
    /\ parse.nodes[n].type # "ERROR"
    /\ (parse.nodes[n].parent # 0 => Walked(parse.nodes[n].parent))

\* the structural units of the parsed file: the definitions of the Python
\* tree, the nodes of a mapped type of the tree-sitter tree
UnitNodes ==
    IF pc = "done" /\ parse.status = "ok" /\ Strip(doc.content) # <<>>
    THEN IF strategy = "python"
         THEN {n \in 2..Len(parse.nodes) :
                  parse.nodes[n].type \in {"ClassDef", "FunctionDef", "AsyncFunctionDef"}}
         ELSE IF strategy = "tree_sitter" /\ parse.nodes[1].type # "ERROR"
                 /\ (Len(parse.nodes) >= 2 => parse.nodes[2].type # "ERROR")
         THEN {n \in 2..Len(parse.nodes) :
                  parse.nodes[n].type \in DOMAIN NODE_TYPE_TO_CHUNK_TYPE /\ Walked(n)}
         ELSE {}
    ELSE {}

\* <<extracted text, start_line, end_line>> of a unit
UnitText(n) ==
    IF strategy = "python"
    THEN _get_node_source_with_decorators(parse.nodes[n], SplitLines(doc.content))
    ELSE _get_node_content(parse.nodes[n], SplitLines(doc.content))

PartKinds == {kind \o "_part" : kind \in ChunkKinds}

\* the sub-chunks of a unit: parts that carry its name and lie in its lines
PartsOf(n) ==
    {k \in 1..Len(chunks) :
        /\ chunks[k].chunk_type \in PartKinds
        /\ chunks[k].name = parse.nodes[n].name
        /\ UnitText(n)[2] <= chunks[k].start_line
        /\ chunks[k].end_line <= UnitText(n)[3]}

\* C16 Subdivision of an oversized unit: for every structural unit whose
\* extracted text is longer than chunk_size no chunk holds the whole unit;
\* there are one or more sub-chunks of chunk_type <kind>_part with the unit's
\* name, and their line ranges reach from the unit's start_line to its
\* end_line.
C16_OversizedUnitSubdivided ==
    \A n \in UnitNodes :
        Len(UnitText(n)[1]) > chunk_size =>
            /\ ~ \E k \in 1..Len(chunks) :
                    /\ chunks[k].content = UnitText(n)[1]
                    /\ Range(k) = <<UnitText(n)[2], UnitText(n)[3]>>
            /\ PartsOf(n) # {}
            /\ \E k \in PartsOf(n) : chunks[k].start_line = UnitText(n)[2]
            /\ \E k \in PartsOf(n) : chunks[k].end_line = UnitText(n)[3]

\* the name of the nearest named structural unit around a node, None when
\* there is none
RECURSIVE EnclosingName(_)
EnclosingName(n) ==
    LET up == parse.nodes[n].parent
    IN  IF up = 0 THEN None
        ELSE IF up \in UnitNodes /\ parse.nodes[up].name # None
        THEN parse.nodes[up].name
        ELSE EnclosingName(up)

\* C17 Parent naming: the parent_name of the chunks of a structural unit is
\* the name of the named structural unit that immediately encloses it (the
\* enclosing function for a function nested in a function), and is absent
\* exactly when no named structural unit encloses it.
C17_ParentNaming ==
    \A n \in UnitNodes :
        parse.nodes[n].name # None =>
            \A k \in 1..Len(chunks) :
                chunks[k].name = parse.nodes[n].name =>
                    chunks[k].parent_name = EnclosingName(n)

----------------------------------------------------------------------------
(* Properties of the Markdown chunker *)

Lines == SplitLines(doc.content)

\* the trimmed line starts with the fence marker
FenceLine(n) == StartsWith(Strip(Lines[n]), Fence)

\* line n lies after an odd number of fence lines
RECURSIVE InsideFence(_)
InsideFence(n) == n > 1 /\ (InsideFence(n - 1) # FenceLine(n - 1))

\* line n is a heading outside a fence
Heading(n) == ~FenceLine(n) /\ ~InsideFence(n) /\ header_match(Lines[n])

\* the breadcrumb after the first n lines: a heading of level L drops the
\* entries of level L and deeper and is put last
RECURSIVE Breadcrumb(_)
Breadcrumb(n) ==
    IF n = 0 THEN <<>>
    ELSE IF Heading(n)
    THEN Append(SelectSeq(Breadcrumb(n - 1),
                          LAMBDA e : e[1] < header_level(Lines[n])),
                <<header_level(Lines[n]), header_text(Lines[n])>>)
    ELSE Breadcrumb(n - 1)

StrictlyIncreasing(stack) ==
    \A a \in 1..Len(stack) : \A b \in 1..Len(stack) : a < b => stack[a][1] < stack[b][1]

\* the chunk carries the breadcrumb in force for its section
CarriesBreadcrumb(c) ==
    LET stack == Breadcrumb(c.start_line)
        n == Len(stack)
    IN  /\ c.section = IF n = 0 THEN None
                       ELSE JoinSep([k \in 1..n |-> stack[k][2]], <<"/">>)
        /\ c.name = IF n = 0 THEN None ELSE stack[n][2]
        /\ c.parent_name = IF n < 2 THEN None ELSE stack[n - 1][2]

\* C18 Markdown breadcrumb: a heading of level L outside a fence pops every
\* entry of level >= L and pushes (L, text), so the header stack holds
\* strictly increasing levels; every flushed chunk has as section the
\* '/'-joined texts of the stack in force for its section, as name the
\* deepest heading text (absent for content before the first heading) and
\* as parent_name the second-deepest.
C18_MarkdownBreadcrumb ==
    /\ StrictlyIncreasing(md.header_stack)
    /\ pc = "loop" => md.header_stack = Breadcrumb(md.i)
    /\ \A k \in 1..Len(md.all_chunks) : CarriesBreadcrumb(md.all_chunks[k])
    /\ \A k \in 1..Len(chunks) : CarriesBreadcrumb(chunks[k])

\* a section two levels deep was flushed, and a later heading of the first
\* level popped both entries
C18_Witness ==
    /\ pc = "done"
    /\ \E k \in 1..Len(chunks) : \E l \in 1..Len(chunks) :
          /\ chunks[k].section = <<"a", "/", "b">>
          /\ chunks[k].name = <<"b">>
          /\ chunks[k].parent_name = <<"a">>
          /\ chunks[l].start_line > chunks[k].start_line
          /\ chunks[l].section = <<"a">>
          /\ chunks[l].parent_name = None

\* what the pass of the loop over line md.i + 1 does to a fence
FenceStep ==
    LET n == md.i + 1
    IN  /\ md'.in_code_block = (md.in_code_block # FenceLine(n))
        /\ md.in_code_block =>
              /\ md'.header_stack = md.header_stack
              /\ md'.all_chunks = md.all_chunks
              /\ md'.current_section_start_line = md.current_section_start_line
              /\ md'.current_section_lines = Append(md.current_section_lines, Lines[n])

\* C19 Markdown fences are opaque: a line whose trimmed form starts with the
\* fence marker toggles the fence state; a line read inside a fence, also
\* one that looks like a heading, starts no new chunk and leaves the header
\* stack alone: it is appended to the current section.
C19_FencesOpaque ==
    /\ [](pc = "loop" => md.in_code_block = InsideFence(md.i + 1))
    /\ [](\A k \in 1..Len(chunks) : chunks[k].start_line = 1 \/ Heading(chunks[k].start_line))
    /\ [][MarkdownStep => FenceStep]_vars

\* the loop has just read, inside a fence, a line that looks like a heading
C19_Witness ==
    /\ pc = "loop"
    /\ md.i >= 2
    /\ md.in_code_block
    /\ InsideFence(md.i)
    /\ header_match(Lines[md.i])
    /\ md.header_stack = <<>>
    /\ md.all_chunks = <<>>

----------------------------------------------------------------------------
(* Properties of the dispatcher (continued) *)

\* a Structural Code Chunker for the language is available: a construction
\* for it has succeeded
Available(lang) ==
    \E i \in 1..Len(constructions) : constructions[i] = <<lang, TRUE>>

\* the chunker the resolution order gives a file type
Resolved(file_type, chunker) ==
    IF file_type \in DOMAIN CHUNKER_MAP
    THEN chunker = IF file_type = "md" THEN markdown_chunker_instance
                   ELSE IF file_type = "py" THEN python_chunker_instance
                   ELSE generic_chunker_instance
    ELSE IF file_type \in DOMAIN TREE_SITTER_LANGUAGE_MAP
            /\ Available(TREE_SITTER_LANGUAGE_MAP[file_type])
    THEN /\ chunker.class = "TreeSitterCodeChunker"
         /\ chunker.language = TREE_SITTER_LANGUAGE_MAP[file_type]
    ELSE chunker = generic_chunker_instance

Constructed(lang) ==
    {i \in 1..Len(constructions) : constructions[i] = <<lang, TRUE>>}

\* C21 Append-only chunker cache: in a sequential ingestion run a cache entry,
\* once made, is never replaced or removed; at most one chunker is
\* successfully constructed per language; and every later file whose type
\* maps to a cached language is chunked by the cached instance.
C21_AppendOnlyCache ==
    /\ [][\A e \in tree_sitter_chunker_cache : e \in tree_sitter_chunker_cache']_vars
    /\ [](\A file_type \in DOMAIN TREE_SITTER_LANGUAGE_MAP :
            Cardinality(Constructed(TREE_SITTER_LANGUAGE_MAP[file_type])) <= 1)
    /\ [](\A e \in tree_sitter_chunker_cache : \A f \in tree_sitter_chunker_cache :
            e.lang = f.lang => e = f)
    /\ [](\A r \in DOMAIN run_pc :
            (/\ run_pc[r] \in {"chunk", "chunking"}
             /\ raw_file_docs[r][file_idx[r]].file_type \in DOMAIN TREE_SITTER_LANGUAGE_MAP
             /\ InCache(tree_sitter_chunker_cache,
                        TREE_SITTER_LANGUAGE_MAP[raw_file_docs[r][file_idx[r]].file_type]))
                => chunker_instance[r] =
                       CacheGet(tree_sitter_chunker_cache,
                           TREE_SITTER_LANGUAGE_MAP[raw_file_docs[r][file_idx[r]].file_type]))

\* a .jsx file is in the hands of the chunker that was constructed and
\* cached for the .js file before it
C21_Witness ==
    /\ run_pc[1] = "chunking"
    /\ file_idx[1] = 2
    /\ raw_file_docs[1][1].file_type = "js"
    /\ raw_file_docs[1][2].file_type = "jsx"
    /\ constructions = << <<"javascript", TRUE>> >>
    /\ chunker_instance[1] = Instance("TreeSitterCodeChunker", "javascript", 1)

----------------------------------------------------------------------------
(* Properties of the edge cases *)

\* C22 Empty input: for content that is empty or only white space every
\* chunker returns an empty list, without raising and whatever the parser
\* would answer; and no chunker ever returns a chunk whose content is empty
\* after trimming.
C22_EmptyInput ==
    /\ (pc # "start" /\ Strip(doc.content) = <<>>) => (pc = "done" /\ chunks = <<>>)
    /\ pc = "done" => \A k \in 1..Len(chunks) : Strip(chunks[k].content) # <<>>

\* the 1-indexed line that holds the character at 0-indexed offset o of the
\* joined lines: one more than the number of terminators before it
LineHolding(content_lines, o) ==
    LET text == Join(content_lines) \o <<LF>>
    IN  1 + Cardinality({p \in 1..o : text[p] = LF})

\* C23 Position Mapper: for lines joined by single terminators (the last
\* line with or without one) and a range [start_char, end_char) with
\* 0 <= start_char < end_char <= total length, _get_line_numbers returns the
\* 1-indexed lines that hold start_char and end_char - 1; for no lines and
\* for a single line it returns (1, 1).
C23_PositionMapper ==
    pc = "done" =>
        /\ position.content_lines # <<>> =>
              position.result = <<LineHolding(position.content_lines, position.start_char),
                                  LineHolding(position.content_lines, position.end_char - 1)>>
        /\ Len(position.content_lines) <= 1 => position.result = <<1, 1>>

\* a range from the second line to the terminator of the third and last line
C23_Witness ==
    /\ pc = "done"
    /\ Len(position.content_lines) = 3
    /\ position.end_char = TerminatedLength(position.content_lines)
    /\ position.result = <<2, 3>>

----------------------------------------------------------------------------
(* Properties of the recovery of top-level code *)

\* the worklist traversal of the tree-sitter chunker has run (no whole-file
\* fallback)
Traversed ==
    /\ strategy = "tree_sitter" /\ pc = "done" /\ parse.status = "ok"
    /\ Strip(doc.content) # <<>>
    /\ (Len(parse.nodes) >= 2 => parse.nodes[2].type # "ERROR")

\* the ERROR nodes the traversal pops: the root, or a node under walked nodes
PoppedErrors ==
    IF Traversed
    THEN {n \in 1..Len(parse.nodes) :
             /\ parse.nodes[n].type = "ERROR"
             /\ (parse.nodes[n].parent # 0 => Walked(parse.nodes[n].parent))}
    ELSE {}

\* node d is node n or lies under it
RECURSIVE Under(_, _)
Under(d, n) == d = n \/ (parse.nodes[d].parent # 0 /\ Under(parse.nodes[d].parent, n))

\* the units the traversal walks: mapped node types with no ERROR above them
WalkedUnits ==
    IF Traversed
    THEN {n \in 1..Len(parse.nodes) :
             parse.nodes[n].type \in DOMAIN NODE_TYPE_TO_CHUNK_TYPE /\ Walked(n)}
    ELSE {}

\* file line l (1-indexed) lies in the lines of a walked unit
CoveredByUnit(l) ==
    \E n \in WalkedUnits : UnitText(n)[2] <= l /\ l <= UnitText(n)[3]

\* C24 Error nodes are skipped, their text is recovered: an ERROR node the
\* traversal pops is not walked into, so no chunk of a structural kind is
\* emitted for it or for a node under it, and every non-blank line of its
\* region that no unit covers lies in a top_level_code chunk.
C24_ErrorNodesSkipped ==
    \A n \in PoppedErrors :
        /\ \A d \in 1..Len(parse.nodes) :
              Under(d, n) =>
                 ~ \E k \in 1..Len(chunks) :
                      /\ chunks[k].chunk_type # "top_level_code"
                      /\ chunks[k].start_line >= parse.nodes[d].start_row + 1
                      /\ chunks[k].end_line <= parse.nodes[d].end_row + 1
                      /\ ~ \E u \in WalkedUnits :
                              /\ chunks[k].name = parse.nodes[u].name
                              /\ UnitText(u)[2] <= chunks[k].start_line
                              /\ chunks[k].end_line <= UnitText(u)[3]
        /\ \A d \in 1..Len(parse.nodes) :
              (Under(d, n) /\ parse.nodes[d].name # None) =>
                 ~ \E k \in 1..Len(chunks) : chunks[k].name = parse.nodes[d].name
        /\ \A l \in (parse.nodes[n].start_row + 1)..(parse.nodes[n].end_row + 1) :
              (l <= Len(FileLines) /\ Strip(FileLines[l]) # <<>> /\ ~CoveredByUnit(l)) =>
                 \E k \in 1..Len(chunks) :
                    /\ chunks[k].chunk_type = "top_level_code"
                    /\ chunks[k].start_line <= l
                    /\ l <= chunks[k].end_line

\* the root of the tree is an ERROR node with a class under it: the class is
\* not chunked, its lines come back as top-level code
C24_Witness ==
    /\ Traversed
    /\ parse.nodes[1].type = "ERROR"
    /\ Len(parse.nodes) >= 2
    /\ parse.nodes[2].type = "class_declaration"
    /\ Len(chunks) >= 1
    /\ \A k \in 1..Len(chunks) : chunks[k].chunk_type = "top_level_code"

\* a structural chunker has walked the tree of the file
StructuralRun ==
    /\ pc = "done" /\ parse.status = "ok" /\ Strip(doc.content) # <<>>
    /\ (strategy = "python" \/ Traversed)

\* covered_lines[l - 1] after the walk: the line lies in the lines of a unit
CoveredLine(l) ==
    \E n \in UnitNodes : UnitText(n)[2] <= l /\ l <= UnitText(n)[3]

TopLevelInsideRuns ==
    \A k \in 1..Len(chunks) :
        chunks[k].chunk_type = "top_level_code" =>
            \A l \in chunks[k].start_line..chunks[k].end_line :
                l <= Len(FileLines) /\ ~CoveredLine(l)

\* C25 Top-level recovery respects coverage: every
\* top_level_code chunk's line range lies inside a run of uncovered lines,
\* and a line is marked covered only if a structural chunk, whole or part,
\* whose line range contains it was emitted.
C25_RecoveryRespectsCoverage ==
    StructuralRun =>
        /\ TopLevelInsideRuns
        /\ \A l \in 1..Len(FileLines) :
              CoveredLine(l) =>
                 \E k \in 1..Len(chunks) :
                    /\ chunks[k].chunk_type # "top_level_code"
                    /\ chunks[k].start_line <= l
                    /\ l <= chunks[k].end_line

----------------------------------------------------------------------------
(* Properties of the Markdown chunker (continued) *)

\* file line n lies in the line range of the k-th returned chunk
InChunk(n, k) == chunks[k].start_line <= n /\ n <= chunks[k].end_line

\* C26 Markdown chunks partition the file: the line ranges of the returned
\* chunks are pairwise disjoint, each next chunk starts on the line after
\* the previous one ends, the last chunk ends on the last line of the file,
\* every heading line outside a fence is the first line of exactly one
\* chunk, and the only lines outside all chunks are whitespace-only lines
\* before the first heading.
C26_MarkdownPartition ==
    pc = "done" =>
        /\ \A k \in 1..Len(chunks) : chunks[k].start_line <= chunks[k].end_line
        /\ \A i \in 1..Len(chunks) : \A j \in 1..Len(chunks) :
              i # j => ~ \E n \in 1..Len(Lines) : InChunk(n, i) /\ InChunk(n, j)
        /\ \A k \in 1..(Len(chunks) - 1) :
              chunks[k + 1].start_line = chunks[k].end_line + 1
        /\ chunks # <<>> => chunks[Len(chunks)].end_line = Len(Lines)
        /\ \A n \in 1..Len(Lines) :
              Heading(n) => Cardinality({k \in 1..Len(chunks) : chunks[k].start_line = n}) = 1
        /\ \A n \in 1..Len(Lines) :
              (~ \E k \in 1..Len(chunks) : InChunk(n, k)) =>
                  /\ Strip(Lines[n]) = <<>>
                  /\ \A m \in 1..n : ~Heading(m)

\* a file of four lines that starts with a blank line comes back as two
\* chunks, the first from line 2 on
C26_Witness ==
    /\ pc = "done"
    /\ Len(Lines) = 4
    /\ Len(chunks) = 2
    /\ chunks[1].start_line = 2
    /\ chunks[2].end_line = 4

----------------------------------------------------------------------------
(* The retrieval pipeline: RAGPipeline *)

\* the chunks of one file as the vector store hands them back: the content
\* and, under meta, the fields _create_base_chunk_meta wrote
Retrieved(cs, repo_name, file_path) ==
    [k \in 1..Len(cs) |->
        [content |-> cs[k].content,
         meta    |-> [repo_name  |-> repo_name,
                      file_path  |-> file_path,
                      start_line |-> cs[k].start_line,
                      end_line   |-> cs[k].end_line]]]

RECURSIVE DeduplicateLoop(_, _, _, _)
DeduplicateLoop(cs, i, seen_identifiers, deduplicated_list) ==
    IF i > Len(cs) THEN deduplicated_list
    ELSE LET meta == cs[i].meta
             identifier == <<meta.repo_name, meta.file_path,
                             meta.start_line, meta.end_line>>
         IN  IF identifier \notin seen_identifiers
             THEN DeduplicateLoop(cs, i + 1, seen_identifiers \cup {identifier},
                                  Append(deduplicated_list, cs[i]))
             ELSE DeduplicateLoop(cs, i + 1, seen_identifiers, deduplicated_list)

_deduplicate_chunks(cs) == DeduplicateLoop(cs, 1, {}, <<>>)

----------------------------------------------------------------------------
(* Properties of the deduplication of retrieved chunks *)

\* the key of a retrieved chunk
KeyOf(c) == <<c.meta.repo_name, c.meta.file_path, c.meta.start_line, c.meta.end_line>>

\* the chunks of the file after a retrieval that hands back all of them
RetrievedChunks == Retrieved(chunks, <<"r">>, <<"f">>)

\* the entries of a list that no earlier entry shares its key with
FirstPerKey(cs) ==
    LET first(i) == \A j \in 1..(i - 1) : KeyOf(cs[j]) # KeyOf(cs[i])
        F[i \in 0..Len(cs)] ==
            IF i = 0 THEN <<>>
            ELSE IF first(i) THEN Append(F[i - 1], cs[i]) ELSE F[i - 1]
    IN  F[Len(cs)]

\* C27 Downstream deduplication loses no content: deduplicating the chunks
\* of a file by (repo_name, file_path, start_line, end_line) keeps the first
\* chunk per key in input order, and every chunk it discards has the same
\* content as the chunk it keeps for that key.
C27_DeduplicationLosesNoContent ==
    pc = "done" =>
        LET kept == _deduplicate_chunks(RetrievedChunks)
        IN  /\ kept = FirstPerKey(RetrievedChunks)
            /\ \A i \in 1..Len(RetrievedChunks) :
                  \E k \in 1..Len(kept) :
                     /\ KeyOf(kept[k]) = KeyOf(RetrievedChunks[i])
                     /\ kept[k].content = RetrievedChunks[i].content

----------------------------------------------------------------------------
(* The conversation store: ChatManager.  self.conversations is a dict, kept *)
(* here in insertion order as a list of entries [id, history].              *)

MaxCalls == 4

ConversationIds == {<<"c", "1">>, <<"c", "2">>}
Queries == {<<"q", "1">>, <<"q", "2">>}
Answers == {<<"a", "1">>}

\* list(self.conversations.keys())
list_conversations(convs) == [k \in 1..Len(convs) |-> convs[k].id]

\* conversation_id in self.conversations
InConversations(convs, conversation_id) ==
    \E k \in 1..Len(convs) : convs[k].id = conversation_id

\* self.conversations[conversation_id] = history: a known key keeps its
\* place, a new one goes last
SetConversation(convs, conversation_id, history) ==
    IF InConversations(convs, conversation_id)
    THEN [k \in 1..Len(convs) |->
             IF convs[k].id = conversation_id
             THEN [id |-> conversation_id, history |-> history]
             ELSE convs[k]]
    ELSE Append(convs, [id |-> conversation_id, history |-> history])

\* create_session with new_id the value of str(uuid.uuid4())
create_session(convs, new_id) == SetConversation(convs, new_id, <<>>)

\* self.conversations.get(conversation_id, [])
get_history(convs, conversation_id) ==
    IF InConversations(convs, conversation_id)
    THEN (CHOOSE e \in {convs[k] : k \in 1..Len(convs)} : e.id = conversation_id).history
    ELSE <<>>

add_message(convs, conversation_id, query, answer) ==
    LET created == IF ~InConversations(convs, conversation_id)
                   THEN SetConversation(convs, conversation_id, <<>>)
                   ELSE convs
    IN  SetConversation(created, conversation_id,
                        Append(get_history(created, conversation_id), <<query, answer>>))

\* del self.conversations[conversation_id], with the key left in place and
\* an empty history
clear_history_keeps_key(convs, conversation_id) ==
    IF InConversations(convs, conversation_id)
    THEN SetConversation(convs, conversation_id, <<>>)
    ELSE convs

clear_history(convs, conversation_id) ==
    IF InConversations(convs, conversation_id)
    THEN SelectSeq(convs, LAMBDA e : e.id # conversation_id)
    ELSE convs

\* one call of a ChatManager method, as it is logged in calls
Call(op, conversation_id, query, answer) ==
    [op |-> op, conversation_id |-> conversation_id, query |-> query, answer |-> answer]

\* nothing is being chunked
NoChunking ==
    /\ doc = RawFile(<<>>, "", NoParse)
    /\ chunk_size = DEFAULT_CHUNK_SIZE
    /\ chunk_overlap = DEFAULT_CHUNK_OVERLAP
    /\ parse = NoParse
    /\ current_char_offset = 0
    /\ chunks = <<>>
    /\ iterations = 0
    /\ md = MdStart
    /\ position = NoPosition
    /\ NoRun

\* ChatManager()
InitChat ==
    /\ strategy = "chat"
    /\ pc = "serving"
    /\ NoChunking
    /\ NoQuery

Called(c, convs, value) ==
    /\ Len(calls) < MaxCalls
    /\ calls' = Append(calls, c)
    /\ conversations' = convs
    /\ returned' = value
    /\ UNCHANGED <<request, outcomes, response>>
    /\ UNCHANGED <<chunkVars, dispatchVars>>

\* uuid4 gives an id no conversation has
CreateSession ==
    \E new_id \in ConversationIds :
        /\ ~InConversations(conversations, new_id)
        /\ Called(Call("create_session", new_id, <<>>, <<>>),
                  create_session(conversations, new_id), new_id)

GetHistory ==
    \E conversation_id \in ConversationIds :
        Called(Call("get_history", conversation_id, <<>>, <<>>),
               conversations, get_history(conversations, conversation_id))

AddMessage ==
    \E conversation_id \in ConversationIds, query \in Queries, answer \in Answers :
        Called(Call("add_message", conversation_id, query, answer),
               add_message(conversations, conversation_id, query, answer), None)

ClearHistory ==
    \E conversation_id \in ConversationIds :
        Called(Call("clear_history", conversation_id, <<>>, <<>>),
               clear_history(conversations, conversation_id), None)

ListConversations ==
    Called(Call("list_conversations", <<>>, <<>>, <<>>),
           conversations, list_conversations(conversations))

NextChat ==
    \/ CreateSession
    \/ GetHistory
    \/ AddMessage
    \/ ClearHistory
    \/ ListConversations

SpecChat == InitChat /\ [][NextChat]_vars

----------------------------------------------------------------------------
(* Properties of the conversation store *)

\* the calls after the last create_session or clear_history of an id
RECURSIVE SinceReset(_, _)
SinceReset(cs, conversation_id) ==
    IF cs = <<>> THEN <<>>
    ELSE LET c == cs[Len(cs)]
             before == SubSeq(cs, 1, Len(cs) - 1)
         IN  IF c.conversation_id = conversation_id
                /\ c.op \in {"create_session", "clear_history"}
             THEN <<>>
             ELSE Append(SinceReset(before, conversation_id), c)

\* the turns added to an id since it was created or last cleared
RECURSIVE Turns(_, _)
Turns(cs, conversation_id) ==
    IF cs = <<>> THEN <<>>
    ELSE LET c == cs[1]
         IN  IF c.op = "add_message" /\ c.conversation_id = conversation_id
             THEN <<<<c.query, c.answer>>>> \o Turns(Tail(cs), conversation_id)
             ELSE Turns(Tail(cs), conversation_id)

TurnsAdded(conversation_id) == Turns(SinceReset(calls, conversation_id), conversation_id)

\* the ids whose last create_session, add_message or clear_history was not
\* a clear_history
Live ==
    {id \in ConversationIds :
        \E i \in 1..Len(calls) :
            /\ calls[i].conversation_id = id
            /\ calls[i].op \in {"create_session", "add_message"}
            /\ \A j \in (i + 1)..Len(calls) :
                  ~(calls[j].conversation_id = id /\ calls[j].op = "clear_history")}

Listed(convs) == {convs[k].id : k \in 1..Len(convs)}

LastCall == calls[Len(calls)]

\* C28 Conversation history is the sequence of added turns: after any
\* sequence of calls, get_history(id) returns exactly the (query, response)
\* pairs added to the id since it was created or last cleared, in call
\* order; get_history on an unknown id returns an empty list and leaves the
\* set of conversations unchanged; add_message on an unknown id creates it;
\* clear_history removes the id from list_conversations and leaves every
\* other conversation unchanged.
C28_HistoryIsAddedTurns ==
    /\ [](/\ \A id \in ConversationIds :
                get_history(conversations, id) = TurnsAdded(id)
          /\ Listed(conversations) = Live
          /\ (calls # <<>> /\ LastCall.op = "get_history") =>
                /\ returned = TurnsAdded(LastCall.conversation_id)
                /\ LastCall.conversation_id \notin Live => returned = <<>>
          /\ (calls # <<>> /\ LastCall.op = "add_message") =>
                InConversations(conversations, LastCall.conversation_id)
          /\ (calls # <<>> /\ LastCall.op = "list_conversations") =>
                /\ {returned[k] : k \in 1..Len(returned)} = Live
                /\ Len(returned) = Cardinality(Live))
    /\ [][GetHistory => conversations' = conversations]_vars
    /\ [][ClearHistory =>
             /\ calls'[Len(calls')].conversation_id
                   \notin Listed(conversations')
             /\ \A id \in ConversationIds \ {calls'[Len(calls')].conversation_id} :
                   /\ (id \in Listed(conversations')) = (id \in Listed(conversations))
                   /\ get_history(conversations', id) = get_history(conversations, id)
             /\ list_conversations(conversations') =
                   SelectSeq(list_conversations(conversations),
                             LAMBDA id : id # calls'[Len(calls')].conversation_id)]_vars

\* a conversation with a turn was cleared, another turn was added to it, and
\* get_history has just returned that turn alone
C28_Witness ==
    /\ calls # <<>>
    /\ LastCall.op = "get_history"
    /\ \E i \in 1..Len(calls) : \E j \in (i + 1)..Len(calls) :
          /\ calls[i].op = "add_message"
          /\ calls[i].conversation_id = LastCall.conversation_id
          /\ calls[j].op = "clear_history"
          /\ calls[j].conversation_id = LastCall.conversation_id
          /\ Len(returned) = 1
          /\ returned[1][1] # calls[i].query

----------------------------------------------------------------------------
(* RAGPipeline.run.  The collaborators (retrieval, prompt builder, language *)
(* model) are given by what each of their calls answers: outcomes.          *)

MaxSubquestions == 2

\* two chunks of one file with different keys
StoredChunk(n) ==
    [content |-> <<"x">>,
     meta    |-> [repo_name |-> <<"r">>, file_path |-> <<"f">>,
                  start_line |-> n, end_line |-> n]]

\* a call of a collaborator answers value, or raises an exception (and
\* then value is the empty value of its kind)
Answered(value) == [raises |-> "", value |-> value]
Raised(exception, empty) == [raises |-> exception, value |-> empty]

\* a citation [FILE: f, LINES: a-b] in the text of an answer
Citation(n) == [file_path |-> <<"f">>, start_line |-> n, end_line |-> n]

\* a text: its phrases, and the matches of CITATION_REGEX in it, in order
Text(phrases, citations) == [phrases |-> phrases, citations |-> citations]

\* what the collaborators answer during one call of run:
\*   initial, sub_retrievals: chroma_manager.query_collection for the query
\*     and for each sub-question: a list of chunks, the RuntimeError that
\*     run catches, or another exception
\*   subquestion_prompt, rag_prompt: prompt_builder.build_subquestion_prompt
\*     and build_rag_prompt: a prompt, or an exception
\*   structured_response: generate_structured_response: None, or the
\*     sub-questions
\*   generation: generate_response: a text, or an exception
Outcomes ==
    LET retrievals == {Raised("RuntimeError", <<>>), Raised("Exception", <<>>),
                       Answered(<<>>), Answered(<<StoredChunk(1)>>),
                       Answered(<<StoredChunk(2), StoredChunk(1)>>)}
    IN  [initial             : retrievals,
         subquestion_prompt  : {"ok", "raises"},
         structured_response : {Raised("None", <<>>)}
                                 \cup {Answered(sq) : sq \in SeqsUpTo({<<"s">>}, MaxSubquestions)},
         sub_retrievals      : [1..MaxSubquestions -> retrievals],
         rag_prompt          : {"ok", "raises"},
         generation          : {Raised("RuntimeError", Text(<<>>, <<>>)),
                                Raised("Exception", Text(<<>>, <<>>)),
                                Answered(Text(<<"w">>, <<>>)),
                                Answered(Text(<<"w">>,
                                              <<Citation(1), Citation(2), Citation(1)>>))}]

NOT_FOUND_PHRASE == "I could not find any relevant information"

NOT_FOUND_ANSWER == Text(<<NOT_FOUND_PHRASE, " in the codebase for your query.">>, <<>>)

\* the citations of a text, each once, in order of first appearance
extract_sources_from_response(response_text) ==
    LET matches == response_text.citations
        extracted_sources_list[i \in 0..Len(matches)] ==
            IF i = 0 THEN <<>>
            ELSE IF \E j \in 1..(i - 1) : matches[j] = matches[i]
                 THEN extracted_sources_list[i - 1]
                 ELSE Append(extracted_sources_list[i - 1], matches[i])
    IN  extracted_sources_list[Len(matches)]

expand_context_chunks(initial_chunks, context_expansion_factor) == initial_chunks

\* what a call of run comes back with: a result record, or an exception;
\* context_chunks are the chunks the final prompt was built from
RunReturns(query, answer, sources, context_chunks) ==
    [raises |-> "",
     value  |-> [query |-> query, answer |-> answer, sources |-> sources],
     context_chunks |-> context_chunks]

RunRaises(exception) ==
    [raises |-> exception,
     value  |-> [query |-> <<>>, answer |-> Text(<<>>, <<>>), sources |-> <<>>],
     context_chunks |-> <<>>]

\* _generate_subquestions once its prompt is built
_generate_subquestions(o) ==
    IF o.structured_response.raises = "" /\ o.structured_response.value # <<>>
    THEN o.structured_response.value
    ELSE <<>>

\* the loop over the sub-questions: a retrieval that raises RuntimeError is
\* logged and skipped, any other exception leaves the loop and run
RECURSIVE SubquestionLoop(_, _, _, _)
SubquestionLoop(o, subquestions, sq_idx, all_retrieved_chunks) ==
    IF sq_idx > Len(subquestions) THEN Answered(all_retrieved_chunks)
    ELSE LET sub_q_chunks == o.sub_retrievals[sq_idx]
         IN  IF sub_q_chunks.raises = "RuntimeError"
             THEN SubquestionLoop(o, subquestions, sq_idx + 1, all_retrieved_chunks)
             ELSE IF sub_q_chunks.raises # ""
             THEN Raised(sub_q_chunks.raises, <<>>)
             ELSE SubquestionLoop(o, subquestions, sq_idx + 1,
                                  all_retrieved_chunks \o sub_q_chunks.value)

\* aggregation and deduplication, then steps 2 to 5: context, final prompt,
\* generation, sources
RunAggregate(query, o, all_retrieved_chunks) ==
    LET context_chunks ==
            expand_context_chunks(_deduplicate_chunks(all_retrieved_chunks), 0)
    IN  IF all_retrieved_chunks = <<>>
        THEN RunReturns(query, NOT_FOUND_ANSWER, <<>>, <<>>)
        ELSE IF o.rag_prompt = "raises"
        THEN RunReturns(query, Text(<<"Prompt building failed: ">>, <<>>), <<>>, context_chunks)
        ELSE IF o.generation.raises = "RuntimeError"
        THEN RunReturns(query, Text(<<"LLM generation error: ">>, <<>>), <<>>, context_chunks)
        ELSE IF o.generation.raises # ""
        THEN RunReturns(query, Text(<<"Unexpected error: ">>, <<>>), <<>>, context_chunks)
        ELSE RunReturns(query, o.generation.value,
                        extract_sources_from_response(o.generation.value), context_chunks)

\* run(repo_name, query, top_k_retrieval, context_expansion_factor = 0,
\* use_two_pass_rag) with collaborators that answer o
RAGPipeline_run(query, use_two_pass_rag, o) ==
    IF o.initial.raises = "RuntimeError"
    THEN RunReturns(query, Text(<<"Retrieval error: ">>, <<>>), <<>>, <<>>)
    ELSE IF o.initial.raises # ""
    THEN RunRaises(o.initial.raises)
    ELSE IF o.initial.value = <<>> /\ ~use_two_pass_rag
    THEN RunReturns(query, NOT_FOUND_ANSWER, <<>>, <<>>)
    ELSE IF ~use_two_pass_rag
    THEN RunAggregate(query, o, o.initial.value)
    ELSE IF o.subquestion_prompt = "raises"
    THEN RunRaises("Exception")
    ELSE LET retrieved == SubquestionLoop(o, _generate_subquestions(o), 1, o.initial.value)
         IN  IF retrieved.raises # ""
             THEN RunRaises(retrieved.raises)
             ELSE RunAggregate(query, o, retrieved.value)

----------------------------------------------------------------------------
(* The /query-codebase endpoint, and run called on its own *)

\* app.state.chroma_manager.list_collections(): the repositories ingested
Collections == {<<"r">>}

\* the parameters run has, and the keywords the endpoint calls it with
RUN_PARAMETERS ==
    {"repo_name", "query", "top_k_retrieval", "context_expansion_factor", "use_two_pass_rag"}

RUN_KEYWORDS ==
    {"repo_name", "query", "top_k_retrieval", "use_two_pass_rag", "chat_history"}

\* query_codebase_endpoint(request): the HTTP status, the response body if
\* the status is 200, and self.conversations afterwards
query_codebase_endpoint(req, o, convs) ==
    LET rag_result ==
            IF RUN_KEYWORDS \subseteq RUN_PARAMETERS
            THEN RAGPipeline_run(req.query, req.use_two_pass_rag, o)
            ELSE RunRaises("TypeError")
        answers(status, convs_after) ==
            [status |-> status, value |-> rag_result.value,
             conversation_id |-> req.conversation_id, conversations |-> convs_after]
    IN  IF req.repo_name \notin Collections THEN answers(404, convs)
        ELSE IF rag_result.raises # "" THEN answers(500, convs)
        ELSE IF \E i \in 1..Len(rag_result.value.answer.phrases) :
                   rag_result.value.answer.phrases[i] = NOT_FOUND_PHRASE
        THEN answers(404, convs)
        ELSE IF req.conversation_id # None
        THEN answers(200, add_message(convs, req.conversation_id, req.query,
                                      rag_result.value.answer))
        ELSE answers(200, convs)

\* a query arrives: its arguments, what the collaborators will answer, and
\* the conversations kept so far
InitQuery ==
    /\ strategy = "query"
    /\ pc = "start"
    /\ NoChunking
    /\ request \in [repo_name : {<<"r">>, <<"u">>},
                    query : {<<"q", "2">>},
                    use_two_pass_rag : BOOLEAN,
                    conversation_id : {None, <<"c", "1">>}]
    /\ outcomes \in Outcomes
    /\ conversations \in {<<>>, add_message(<<>>, <<"c", "1">>, <<"q", "1">>, Text(<<"w">>, <<>>))}
    /\ calls = <<>>
    /\ returned = <<>>
    /\ response = <<>>

\* rag_pipeline.run(repo_name, query, top_k_retrieval, use_two_pass_rag = ...)
RunPipeline ==
    /\ pc = "start"
    /\ response' = RAGPipeline_run(request.query, request.use_two_pass_rag, outcomes)
    /\ pc' = IF response'.raises = "" THEN "returned" ELSE "raised"
    /\ UNCHANGED <<strategy, doc, chunk_size, chunk_overlap, parse,
                   current_char_offset, chunks, iterations, md, position>>
    /\ UNCHANGED <<conversations, calls, returned, request, outcomes>>
    /\ UNCHANGED dispatchVars

\* POST /query-codebase
QueryCodebase ==
    /\ pc = "start"
    /\ LET answered == query_codebase_endpoint(request, outcomes, conversations)
       IN  /\ response' = [status |-> answered.status, value |-> answered.value,
                           conversation_id |-> answered.conversation_id]
           /\ conversations' = answered.conversations
    /\ pc' = "responded"
    /\ UNCHANGED <<strategy, doc, chunk_size, chunk_overlap, parse,
                   current_char_offset, chunks, iterations, md, position>>
    /\ UNCHANGED <<calls, returned, request, outcomes>>
    /\ UNCHANGED dispatchVars

NextQuery ==
    \/ RunPipeline
    \/ QueryCodebase

SpecQuery == InitQuery /\ [][NextQuery]_vars

----------------------------------------------------------------------------
(* Properties of the query path *)

\* what the pipeline answers when it is run on the arguments of the request
PipelineAnswer == RAGPipeline_run(request.query, request.use_two_pass_rag, outcomes)

\* the pipeline reports that it found no relevant information
ReportsNothingFound(ran) ==
    \E i \in 1..Len(ran.value.answer.phrases) :
        ran.value.answer.phrases[i] = NOT_FOUND_PHRASE

\* C29 A successful query extends the conversation: for an ingested
\* repository, a request whose pipeline run produces an answer is answered
\* with that answer and its sources, and when it carries a conversation_id
\* exactly one (query, answer) pair is appended to the history of that
\* conversation; when the pipeline reports that it found no relevant
\* information the endpoint answers 404 and leaves the history unchanged.
C29_SuccessfulQueryExtendsConversation ==
    [][(QueryCodebase /\ request.repo_name \in Collections /\ PipelineAnswer.raises = "") =>
          IF ReportsNothingFound(PipelineAnswer)
          THEN /\ response'.status = 404
               /\ conversations' = conversations
          ELSE /\ response'.status = 200
               /\ response'.value = PipelineAnswer.value
               /\ IF request.conversation_id = None
                  THEN conversations' = conversations
                  ELSE get_history(conversations', request.conversation_id) =
                          Append(get_history(conversations, request.conversation_id),
                                 <<request.query, PipelineAnswer.value.answer>>)]_vars

\* the answer of run tells of an error and names no source
ErrorAnswer ==
    /\ response.value.sources = <<>>
    /\ response.value.answer # NOT_FOUND_ANSWER
    /\ \A g \in {o.generation.value : o \in Outcomes} : response.value.answer # g

\* the sub-questions run retrieved for
SubquestionsAsked ==
    IF request.use_two_pass_rag /\ outcomes.initial.raises = ""
    THEN _generate_subquestions(outcomes)
    ELSE <<>>

\* the chunks the retrievals that did not fail handed back
ChunksRetrieved ==
    {outcomes.initial.value[k] : k \in 1..Len(outcomes.initial.value)}
    \cup UNION {{outcomes.sub_retrievals[i].value[k] :
                    k \in 1..Len(outcomes.sub_retrievals[i].value)} :
                i \in 1..Len(SubquestionsAsked)}

\* C30 RAGPipeline.run always returns a result record: for every outcome of
\* its collaborators run returns a record with the original query, an
\* answer and a list of sources, and never raises; a failure of the initial
\* retrieval, of prompt building or of generation yields an error answer
\* with empty sources; and a failure while retrieving for one sub-question
\* discards none of the chunks retrieved for the query or for the other
\* sub-questions.
C30_RunAlwaysReturns ==
    (strategy = "query" /\ pc \in {"returned", "raised"}) =>
        /\ pc = "returned"
        /\ response.value.query = request.query
        /\ outcomes.initial.raises # "" => ErrorAnswer
        /\ (/\ outcomes.initial.raises = ""
            /\ request.use_two_pass_rag
            /\ outcomes.subquestion_prompt = "raises") => ErrorAnswer
        /\ (/\ response.context_chunks # <<>>
            /\ \/ outcomes.rag_prompt = "raises"
               \/ outcomes.generation.raises # "") => ErrorAnswer
        /\ (/\ outcomes.initial.raises = ""
            /\ ChunksRetrieved # {}) =>
              \A c \in ChunksRetrieved :
                 \E k \in 1..Len(response.context_chunks) : response.context_chunks[k] = c
====
